---- MODULE Spec2Model ----
(***************************************************************************)
(* listlet: the atomic sub-document mutation engine.                       *)
(*                                                                         *)
(* The server is the Azure Function handler (GET / PUT / POST / DELETE /   *)
(* PATCH on one blob), the client is createApi's appendItem / deleteItem   *)
(* retry loop, and the SwarmSpace UI handlers that call it.  The blob      *)
(* store is a single blob with its content and ETag.                       *)
(***************************************************************************)
EXTENDS Integers, Sequences, FiniteSets, TLC

(***************************************************************************)
(* Bounds of the model.                                                    *)
(***************************************************************************)
\* number of SwarmSpace pages in the general specification
NumPages == 3
\* number of concurrent requesters in the server specification
NumRequesters == 2
\* number of concurrent appenders in the append-only specification
NumAppenders == 3
\* largest maxRetries a caller passes in the retry-client specification
MaxRetriesTried == 4
\* number of clients concurrently appending a week in the weeks specification
NumWeekAdders == 2

\* appendItem(path, value, maxRetries = 3): the default of the parameter
DefaultMaxRetries == 3
\* setTimeout(r, 100 * (i + 1)): the backoff unit in milliseconds
BackoffUnit == 100
\* the poll interval of the sync module, in milliseconds
POLL_INTERVAL == 15000
\* the inactivity after which the sync module pauses, in milliseconds
PAUSE_AFTER == 5 * 60 * 1000
\* largest number of refreshes of one page awaiting their response
MaxPolls == 1

(***************************************************************************)
(* JSON values.  A value is a tagged record; t is the JavaScript type.     *)
(*   obj   v : a function from keys (strings) to values                    *)
(*   arr   v : a sequence of values                                        *)
(*   str   v : a string          num  v : an integer      bool v : BOOLEAN *)
(*   null, undef (JavaScript undefined), throw (a TypeError was raised)    *)
(***************************************************************************)
Obj(f) == [t |-> "obj", v |-> f]
Arr(s) == [t |-> "arr", v |-> s]
Str(s) == [t |-> "str", v |-> s]
Num(n) == [t |-> "num", v |-> n]
Bool(b) == [t |-> "bool", v |-> b]
Null == [t |-> "null"]
Undefined == [t |-> "undef"]
Thrown == [t |-> "throw"]

\* /^\d+$/.test(part): the all-digit segments of the model's universe
DigitSegments == {"0", "1", "2", "3", "4", "5", "6", "01"}
IsDigits(part) == part \in DigitSegments

\* parseInt(part) for an all-digit segment
ParseInt(part) ==
    CASE part = "0" -> 0
      [] part = "1" -> 1
      [] part = "01" -> 1
      [] part = "2" -> 2
      [] part = "3" -> 3
      [] part = "4" -> 4
      [] part = "5" -> 5
      [] part = "6" -> 6

\* the property key a number indexes an object with: obj[1] is obj["1"]
NumberKey(n) ==
    CASE n = 0 -> "0"
      [] n = 1 -> "1"
      [] n = 2 -> "2"
      [] n = 3 -> "3"
      [] n = 4 -> "4"
      [] n = 5 -> "5"
      [] n = 6 -> "6"

\* the strings of the model's universe and their lengths (s.length)
StrLen(s) ==
    CASE s = "" -> 0
      [] s \in {"c", "w", "r", "x", "1", "2", "3", "4", "5", "6"} -> 1
      [] OTHER -> 2

\* s[i] for i < s.length: the one-character string at index i
CharAt(s, i) ==
    IF StrLen(s) = 1 THEN s
    ELSE IF i = 0
         THEN (CASE s \in {"c1", "c2", "c3", "c4", "c5", "c6"} -> "c"
                 [] s \in {"w1", "w2"} -> "w"
                 [] s \in {"r0", "r1", "r2"} -> "r"
                 [] OTHER -> "x")
         ELSE (CASE s \in {"c1", "w1", "r1"} -> "1"
                 [] s \in {"c2", "w2", "r2"} -> "2"
                 [] s = "c3" -> "3"
                 [] s = "c4" -> "4"
                 [] s = "c5" -> "5"
                 [] s = "c6" -> "6"
                 [] OTHER -> "x")

\* a resolver that takes every segment for a field name (curr[part])
GetPropByName(curr, part) ==
    CASE curr.t = "throw" -> Thrown
      [] curr.t \in {"null", "undef"} -> Thrown
      [] curr.t = "obj" ->
            IF part \in DOMAIN curr.v THEN curr.v[part] ELSE Undefined
      [] curr.t = "arr" ->
            IF part = "length" THEN Num(Len(curr.v)) ELSE Undefined
      [] curr.t = "str" ->
            IF part = "length" THEN Num(StrLen(curr.v)) ELSE Undefined
      [] curr.t \in {"num", "bool"} -> Undefined

\* curr[parseInt(part)] or curr[part]: JavaScript property access
GetProp(curr, part) ==
    CASE curr.t = "throw" -> Thrown
      [] curr.t \in {"null", "undef"} -> Thrown
      [] curr.t = "obj" ->
            LET key == IF IsDigits(part) THEN NumberKey(ParseInt(part)) ELSE part
            IN  IF key \in DOMAIN curr.v THEN curr.v[key] ELSE Undefined
      [] curr.t = "arr" ->
            IF IsDigits(part)
            THEN IF ParseInt(part) < Len(curr.v)
                 THEN curr.v[ParseInt(part) + 1] ELSE Undefined
            ELSE IF part = "length" THEN Num(Len(curr.v)) ELSE Undefined
      [] curr.t = "str" ->
            IF IsDigits(part)
            THEN IF ParseInt(part) < StrLen(curr.v)
                 THEN Str(CharAt(curr.v, ParseInt(part))) ELSE Undefined
            ELSE IF part = "length" THEN Num(StrLen(curr.v)) ELSE Undefined
      [] curr.t \in {"num", "bool"} -> Undefined

(***************************************************************************)
(* A path is the result of path.split('.'): a non-empty sequence of        *)
(* segments.  The empty string splits to the single empty segment.         *)
(***************************************************************************)
EmptyPath == <<"">>

RECURSIVE Reduce(_, _)
\* path.split('.').reduce(step, curr) of navigateToPath
Reduce(curr, parts) ==
    IF parts = <<>> THEN curr
    ELSE IF curr.t = "throw" THEN Thrown
    ELSE IF curr.t = "undef" THEN Undefined
    ELSE Reduce(GetProp(curr, Head(parts)), Tail(parts))

navigateToPath(obj, path) == Reduce(obj, path)

RECURSIVE SetAt(_, _, _)
\* the document after the node reached by parts (through objects and arrays)
\* has been replaced by node: what an in-place change of the target does to data
SetAt(curr, parts, node) ==
    IF parts = <<>> THEN node
    ELSE IF curr.t = "obj"
         THEN LET key == IF IsDigits(Head(parts))
                         THEN NumberKey(ParseInt(Head(parts))) ELSE Head(parts)
              IN  Obj([curr.v EXCEPT ![key] = SetAt(curr.v[key], Tail(parts), node)])
         ELSE Arr([curr.v EXCEPT ![ParseInt(Head(parts)) + 1] =
                      SetAt(curr.v[ParseInt(Head(parts)) + 1], Tail(parts), node)])

RECURSIVE Stringify(_)
\* JSON.parse(JSON.stringify(value)): the content a stringified value parses
\* back to.  Undefined object fields are dropped, undefined array elements
\* (holes) become null.
Stringify(value) ==
    CASE value.t = "obj" ->
            Obj([k \in {x \in DOMAIN value.v : value.v[x].t /= "undef"} |->
                    Stringify(value.v[k])])
      [] value.t = "arr" ->
            Arr([i \in 1..Len(value.v) |->
                    IF value.v[i].t = "undef" THEN Null ELSE Stringify(value.v[i])])
      [] OTHER -> value

(***************************************************************************)
(* JavaScript operators the handlers use.                                  *)
(***************************************************************************)
\* the truthiness of a value (!value is its negation)
Truthy(value) ==
    CASE value.t \in {"undef", "null"} -> FALSE
      [] value.t = "num" -> value.v /= 0
      [] value.t = "str" -> value.v /= ""
      [] value.t = "bool" -> value.v
      [] OTHER -> TRUE

\* a === b for a primitive b: objects and arrays are only equal to themselves
StrictEquals(a, b) ==
    /\ a.t = b.t
    /\ a.t \in {"str", "num", "bool", "null", "undef"}
    /\ a = b

\* (weekNumber || 1) + 1 for the week numbers of the model's universe
\* (numbers, booleans and the falsy values)
OrOnePlusOne(weekNumber) ==
    CASE ~Truthy(weekNumber) -> Num(2)
      [] weekNumber.t = "num" -> Num(weekNumber.v + 1)
      [] weekNumber.t = "bool" -> Num(2)

\* object[key] = value on an object
SetField(object, key, value) ==
    Obj([k \in DOMAIN object.v \cup {key} |->
            IF k = key THEN value ELSE object.v[k]])

\* target.splice(index): everything from index on is removed
SpliceToEnd(items, index) == SubSeq(items, 1, index - 1)

\* target.splice(index, 1), index counted from 1
Splice(items, index) ==
    [i \in 1..(Len(items) - 1) |-> IF i < index THEN items[i] ELSE items[i + 1]]

RECURSIVE FindIndexFrom(_, _, _)
\* target.findIndex(item => item.id === id) scanning from position i:
\* the position (from 1) of the first match, 0 for -1, and -1 when
\* item.id raises a TypeError (a null element) before a match is found
FindIndexFrom(items, id, i) ==
    IF i > Len(items) THEN 0
    ELSE IF items[i].t \in {"null", "undef"} THEN -1
    ELSE IF StrictEquals(GetProp(items[i], "id"), id) THEN i
    ELSE FindIndexFrom(items, id, i + 1)

FindIndex(items, id) == FindIndexFrom(items, id, 1)

(***************************************************************************)
(* The read-and-mutate part of the POST, DELETE and PATCH handlers: from   *)
(* the request body and the downloaded content to either a response        *)
(* (status 400, 404 or 500, nothing uploaded) or the mutated document      *)
(* that the handler goes on to upload (status 0).                          *)
(***************************************************************************)
Respond(status) == [status |-> status, data |-> Undefined]
Proceed(data) == [status |-> 0, data |-> data]

\* a POST handler that stores the week as the client sent it
WeekValueTrusted(path, value, target) == value

\* a POST handler that calculates the weekNumber only when the client sent
\* none (value.weekNumber = value.weekNumber || ...)
WeekValueKeepsClient(path, value, target) ==
    IF path = <<"weeks">> /\ value.t = "obj"
    THEN LET own == GetProp(value, "weekNumber")
         IN  IF Truthy(own) THEN value
             ELSE IF Len(target.v) > 0
             THEN SetField(value, "weekNumber",
                      OrOnePlusOne(GetProp(target.v[Len(target.v)], "weekNumber")))
             ELSE SetField(value, "weekNumber", Num(1))
    ELSE value

\* Server-side week number calculation of the POST handler
WeekValue(path, value, target) ==
    IF path = <<"weeks">> /\ value.t = "obj"
    THEN IF Len(target.v) > 0
         THEN LET lastWeek == target.v[Len(target.v)]
                  weekNumber == GetProp(lastWeek, "weekNumber")
              IN  IF weekNumber.t = "throw" THEN Thrown
                  ELSE SetField(value, "weekNumber", OrOnePlusOne(weekNumber))
         ELSE LET weekNumber == GetProp(value, "weekNumber")
              IN  SetField(value, "weekNumber",
                           IF Truthy(weekNumber) THEN weekNumber ELSE Num(1))
    ELSE value

\* a POST that only pushes when the target is an array and goes on to the
\* upload either way
PostMutateUnchecked(body, data) ==
    LET target == navigateToPath(data, body.path)
    IN  IF target.t = "throw" THEN Respond(500)
        ELSE IF target.t /= "arr" THEN Proceed(data)
        ELSE LET value == WeekValue(body.path, body.arg, target)
             IN  IF value.t = "throw" THEN Respond(500)
                 ELSE Proceed(SetAt(data, body.path, Arr(Append(target.v, value))))

\* POST: navigate to path and append value
PostMutate(body, data) ==
    LET target == navigateToPath(data, body.path)
    IN  IF target.t = "throw" THEN Respond(500)
        ELSE IF target.t /= "arr" THEN Respond(400)
        ELSE LET value == WeekValue(body.path, body.arg, target)
             IN  IF value.t = "throw" THEN Respond(500)
                 ELSE Proceed(SetAt(data, body.path, Arr(Append(target.v, value))))

\* a DELETE without the index === -1 check: splice(-1, 1) removes the last
\* element
DeleteMutateUnchecked(body, data) ==
    LET target == navigateToPath(data, body.path)
    IN  IF target.t = "throw" THEN Respond(500)
        ELSE IF target.t /= "arr" THEN Respond(400)
        ELSE LET index == FindIndex(target.v, body.arg)
             IN  IF index = -1 THEN Respond(500)
                 ELSE IF index = 0
                 THEN Proceed(SetAt(data, body.path,
                          Arr(SubSeq(target.v, 1, Len(target.v) - 1))))
                 ELSE Proceed(SetAt(data, body.path, Arr(Splice(target.v, index))))

\* DELETE: navigate to path and remove the item by id
DeleteMutate(body, data) ==
    LET target == navigateToPath(data, body.path)
    IN  IF target.t = "throw" THEN Respond(500)
        ELSE IF target.t /= "arr" THEN Respond(400)
        ELSE LET index == FindIndex(target.v, body.arg)
             IN  IF index = -1 THEN Respond(500)
                 ELSE IF index = 0 THEN Respond(404)
                 ELSE Proceed(SetAt(data, body.path, Arr(Splice(target.v, index))))

\* pathParts.pop() and pathParts.join('.'): the join of no segment is '',
\* which splits to the single empty segment
FieldName(path) == path[Len(path)]
ParentPath(path) ==
    IF Len(path) = 1 THEN EmptyPath ELSE SubSeq(path, 1, Len(path) - 1)

\* a PATCH handler without the special case for parentPath === ''
ParentIsRootNever(path) == FALSE

\* parentPath === ''
ParentIsRoot(path) == ParentPath(path) = EmptyPath

\* key in parent, for a parent that is an object or an array
KeyIn(fieldName, parent) ==
    IF parent.t = "obj"
    THEN (IF IsDigits(fieldName) THEN NumberKey(ParseInt(fieldName)) ELSE fieldName)
            \in DOMAIN parent.v
    ELSE IF IsDigits(fieldName) THEN ParseInt(fieldName) < Len(parent.v)
         ELSE fieldName = "length"

\* the array length a value converts to when assigned to array.length:
\* Number(value) if that is a non-negative integer, -1 when the assignment
\* raises a RangeError (NaN, a negative number)
ToLength(value) ==
    CASE value.t = "num" -> IF value.v >= 0 THEN value.v ELSE -1
      [] value.t = "null" -> 0
      [] value.t = "bool" -> IF value.v THEN 1 ELSE 0
      [] value.t = "str" -> IF value.v = "" THEN 0
                            ELSE IF IsDigits(value.v) THEN ParseInt(value.v) ELSE -1
      [] OTHER -> -1

\* parent[key] = value; Thrown when the assignment raises (an invalid
\* array length)
AssignKey(parent, fieldName, value) ==
    IF parent.t = "obj"
    THEN SetField(parent,
                  IF IsDigits(fieldName) THEN NumberKey(ParseInt(fieldName))
                  ELSE fieldName, value)
    ELSE IF parent.t = "arr"
    THEN IF IsDigits(fieldName)
         THEN Arr([i \in 1..(IF ParseInt(fieldName) < Len(parent.v)
                             THEN Len(parent.v) ELSE ParseInt(fieldName) + 1) |->
                      IF i = ParseInt(fieldName) + 1 THEN value
                      ELSE IF i <= Len(parent.v) THEN parent.v[i] ELSE Undefined])
         ELSE IF fieldName = "length"
         THEN IF ToLength(value) >= 0
              THEN Arr([i \in 1..ToLength(value) |->
                           IF i <= Len(parent.v) THEN parent.v[i] ELSE Undefined])
              ELSE Thrown
         ELSE parent
    ELSE parent

\* PATCH: navigate to the parent and set the value
PatchMutate(body, data) ==
    LET parent == IF ParentIsRoot(body.path) THEN data
                  ELSE navigateToPath(data, ParentPath(body.path))
    IN  IF parent.t = "throw" THEN Respond(500)
        ELSE IF parent.t \in {"undef", "null"} THEN Respond(400)
        ELSE IF ~ParentIsRoot(body.path) /\ parent.t \notin {"obj", "arr"}
        THEN Respond(500)
        ELSE IF ~ParentIsRoot(body.path) /\ ~KeyIn(FieldName(body.path), parent)
        THEN Respond(400)
        ELSE LET assigned == AssignKey(parent, FieldName(body.path), body.arg)
             IN  IF assigned.t = "throw" THEN Respond(500)
                 ELSE Proceed(IF ParentIsRoot(body.path) THEN assigned
                              ELSE SetAt(data, ParentPath(body.path), assigned))

\* if (!path || value === undefined) / if (!path || !id): the 400 before
\* the download
MissingFields(body) ==
    \/ body.path = EmptyPath
    \/ IF body.method = "DELETE" THEN ~Truthy(body.arg) ELSE body.arg.t = "undef"

\* a handler that takes a missing blob for a document of empty lists
HandlerMutateOnMissing(body, exists, content) ==
    IF MissingFields(body) THEN Respond(400)
    ELSE LET data == IF exists THEN content
                     ELSE Obj([weeks |-> Arr(<<>>), resources |-> Arr(<<>>)])
         IN  CASE body.method = "POST" -> PostMutate(body, data)
               [] body.method = "DELETE" -> DeleteMutate(body, data)
               [] body.method = "PATCH" -> PatchMutate(body, data)

\* one handler invocation up to its upload, given whether the blob exists
\* (download raises statusCode 404 when it does not) and its content
HandlerMutate(body, exists, content) ==
    IF MissingFields(body) THEN Respond(400)
    ELSE IF ~exists THEN Respond(404)
    ELSE CASE body.method = "POST" -> PostMutate(body, content)
           [] body.method = "DELETE" -> DeleteMutate(body, content)
           [] body.method = "PATCH" -> PatchMutate(body, content)

(***************************************************************************)
(* The universe of documents and values.                                   *)
(***************************************************************************)
\* generateId(): unique per client
IdNames == <<"c1", "c2", "c3", "c4", "c5", "c6">>
IdOf(c) == IdNames[c]

\* a comment or a resource created by client c: { id, ... }
Item(c) == Obj([id |-> Str(IdOf(c))])

\* handleAddWeek's newWeek: an id and empty event (no weekNumber: the
\* server calculates it)
NewWeek(c) ==
    Obj([id |-> Str(IdOf(c)),
         event |-> Obj([text |-> Str(""), comments |-> Arr(<<>>)])])

\* DEFAULT_SESSION of the SwarmSpace store
DEFAULT_SESSION ==
    Obj([title |-> Str(""), setting |-> Str(""), currentWeekId |-> Null,
         weeks |-> Arr(<<>>), resources |-> Arr(<<>>),
         locations |-> Arr(<<>>), names |-> Arr(<<>>)])

\* a stored session with one week and one resource
SessionDoc ==
    Obj([title |-> Str(""),
         weeks |-> Arr(<<Obj([id |-> Str("w1"), weekNumber |-> Num(1),
                              event |-> Obj([text |-> Str(""),
                                             comments |-> Arr(<<>>)])])>>),
         resources |-> Arr(<<Obj([id |-> Str("r0")])>>)])

(***************************************************************************)
(* State.                                                                  *)
(***************************************************************************)
VARIABLES
    store,      \* the blob: exists, content (the parsed bytes), etag
    client,     \* per client: the appendItem / deleteItem call in progress
    handler,    \* per client: the server handler serving its request
    ui,         \* per client: the SwarmSpace page (phase, local session)
    writes,     \* history: the successful uploads, in order
    initial     \* history: the blob as it was initially

vars == <<store, client, handler, ui, writes, initial>>

IdleClient ==
    [pc |-> "idle", method |-> "", path |-> EmptyPath, arg |-> Undefined,
     maxRetries |-> 0, i |-> 0, status |-> 0, result |-> Undefined,
     outcome |-> "none", requests |-> 0, conflicts |-> 0, waits |-> <<>>]

IdleHandler == [pc |-> "none", etag |-> 0, data |-> Undefined, readAt |-> 0]

NoStore == [exists |-> FALSE, content |-> Undefined, etag |-> 0]
StoreOf(content) == [exists |-> TRUE, content |-> content, etag |-> 1]

(***************************************************************************)
(* The blob store (Azure Blob Storage behind blobClient).                  *)
(***************************************************************************)
\* an upload whose precondition is not evaluated (conditions left out)
IfMatchIgnored(blob, etag) == blob.exists

\* conditions: { ifMatch: etag }: the precondition of the conditional upload
IfMatchHolds(blob, etag) == blob.exists /\ blob.etag = etag

\* an upload that leaves the ETag of the blob as it was
UploadedSameEtag(blob, data) ==
    [exists |-> TRUE, content |-> Stringify(data),
     etag |-> IF blob.exists THEN blob.etag ELSE 1]

\* blobClient.upload(data, ...): the blob after a successful upload of
\* JSON.stringify(data); every upload gives the blob a new ETag
Uploaded(blob, data) ==
    [exists |-> TRUE, content |-> Stringify(data), etag |-> blob.etag + 1]

\* the record of a successful upload
WriteRecord(kind, c, expected, body) ==
    [kind |-> kind, by |-> c, expected |-> expected,
     produced |-> store.etag + 1, body |-> body]

(***************************************************************************)
(* The sync module (SwarmSpaceSync) of a page.  Its state is a record:     *)
(* api (set by init), syncInterval (a timer is set), syncPaused,           *)
(* lastSyncTime, the clock of the browser (now), the time at which the     *)
(* timer next fires (due), the refreshes awaiting their response (polls),  *)
(* and three history fields: the time of the last tick of the timer, the   *)
(* function of the module that ran last, and whether stop() was called     *)
(* with no init since.                                                     *)
(***************************************************************************)
NoSync ==
    [api |-> FALSE, syncInterval |-> FALSE, syncPaused |-> FALSE,
     lastSyncTime |-> 0, now |-> 0, due |-> 0, polls |-> <<>>,
     lastTick |-> -1, lastOp |-> "none", stopped |-> FALSE]

\* startPolling(): clears the timer and sets a new one
startPolling(s) ==
    [s EXCEPT !.lastSyncTime = s.now, !.syncPaused = FALSE,
              !.syncInterval = TRUE, !.due = s.now + POLL_INTERVAL]

\* pausePolling()
pausePolling(s) == [s EXCEPT !.syncPaused = TRUE, !.syncInterval = FALSE]

\* resetActivity(): lastSyncTime = Date.now(); startPolling() when paused
resetActivity(s) ==
    IF s.syncPaused
    THEN startPolling([s EXCEPT !.lastSyncTime = s.now,
                                !.lastOp = "resetActivity"])
    ELSE [s EXCEPT !.lastSyncTime = s.now, !.lastOp = "resetActivity"]

\* stop()
stop(s) ==
    [s EXCEPT !.syncInterval = FALSE, !.syncPaused = TRUE, !.stopped = TRUE,
              !.lastOp = "stop"]

\* refreshFromServer() up to its await: api.fetchTasks() sends a GET
refreshFromServer(s, manual) ==
    IF ~s.api THEN s
    ELSE [s EXCEPT !.polls = Append(@, [pc |-> "sent", manual |-> manual,
                                       data |-> Undefined])]

\* a timer callback that refreshes whatever time has elapsed
TickedNeverPauses(s) == refreshFromServer(s, FALSE)

\* the callback of setInterval: pause after PAUSE_AFTER of inactivity,
\* refresh otherwise
Ticked(s) ==
    IF s.now - s.lastSyncTime > PAUSE_AFTER
    THEN pausePolling(s)
    ELSE refreshFromServer(s, FALSE)

(***************************************************************************)
(* The SwarmSpace page around an atomic operation:                         *)
(*   try { const updatedDoc = await api.appendItem(...);                   *)
(*         SwarmSpaceStore.setSession(updatedDoc); ... }                   *)
(*   catch (error) { showError(...); }                                     *)
(***************************************************************************)
\* SwarmSpaceStore.setSession(data)
setSession(data) ==
    LET base == IF Truthy(data) THEN data ELSE DEFAULT_SESSION
        Ensure(session, key) ==
            IF Truthy(GetProp(session, key)) THEN session
            ELSE SetField(session, key, Arr(<<>>))
    IN  IF base.t /= "obj" THEN base
        ELSE Ensure(Ensure(Ensure(Ensure(base, "weeks"), "resources"),
                           "locations"), "names")

\* the try branch after the await: setSession(updatedDoc)
CallSucceeded(c, call) ==
    /\ ui' = [ui EXCEPT ![c].phase = "ready",
                        ![c].session = setSession(call.result),
                        ![c].sync = resetActivity(@)]
    /\ UNCHANGED <<store, writes>>

\* a catch branch that falls back to a PUT of the local session
CallFailedPutFallback(c, call) ==
    /\ ui' = [ui EXCEPT ![c].phase = "ready", ![c].errorShown = TRUE,
                        ![c].puts = @ + 1]
    /\ store' = [exists |-> TRUE, content |-> Stringify(ui[c].session),
                 etag |-> store.etag + 1]
    /\ writes' = Append(writes,
           [kind |-> "put", by |-> c, expected |-> 0,
            produced |-> store.etag + 1,
            body |-> [method |-> "PUT", path |-> EmptyPath,
                      arg |-> ui[c].session]])

\* the catch branch: showError(...), nothing else
CallFailed(c, call) ==
    /\ ui' = [ui EXCEPT ![c].phase = "ready", ![c].errorShown = TRUE]
    /\ UNCHANGED <<store, writes>>

\* the awaiting handler resumes as soon as the call has returned or thrown
Settle(c, call) ==
    IF ui[c].phase = "saving" /\ call.pc = "done"
    THEN IF call.outcome = "success"
         THEN CallSucceeded(c, call) ELSE CallFailed(c, call)
    ELSE UNCHANGED <<ui, store, writes>>

(***************************************************************************)
(* The retry client: appendItem / deleteItem of createApi.                 *)
(***************************************************************************)
\* a loop that runs once more: i <= maxRetries
LoopTestInclusive(call, i) ==
    IF i <= call.maxRetries
    THEN [call EXCEPT !.pc = "fetching", !.i = i, !.requests = @ + 1]
    ELSE [call EXCEPT !.pc = "done", !.i = i, !.outcome = "exhausted"]

\* a loop that ends in the same Error as a failed attempt
LoopTestGenericError(call, i) ==
    IF i < call.maxRetries
    THEN [call EXCEPT !.pc = "fetching", !.i = i, !.requests = @ + 1]
    ELSE [call EXCEPT !.pc = "done", !.i = i, !.outcome = "error"]

\* for (let i = 0; i < maxRetries; i++) { await fetch(...) ... } throw new
\* Error('Max retries exceeded'): the loop test with counter i, running into
\* the next fetch or the throw
LoopTest(call, i) ==
    IF i < call.maxRetries
    THEN [call EXCEPT !.pc = "fetching", !.i = i, !.requests = @ + 1]
    ELSE [call EXCEPT !.pc = "done", !.i = i, !.outcome = "exhausted"]

\* the call goes on as `call`; the request of a fetch reaches the server
\* and a handler invocation starts
Continue(c, call) ==
    /\ client' = [client EXCEPT ![c] = call]
    /\ handler' = [handler EXCEPT ![c] =
           IF call.pc = "fetching" THEN [IdleHandler EXCEPT !.pc = "received"]
           ELSE IdleHandler]

\* a call enters its retry loop and issues its first request
BeginCall(c, method, path, arg, maxRetries) ==
    /\ client[c].pc \in {"idle", "done"}
    /\ Continue(c, LoopTest([IdleClient EXCEPT !.method = method, !.path = path,
                                !.arg = arg, !.maxRetries = maxRetries], 0))

appendItem(c, path, value, maxRetries) ==
    BeginCall(c, "POST", path, value, maxRetries)

deleteItem(c, path, id, maxRetries) ==
    BeginCall(c, "DELETE", path, id, maxRetries)

\* patchItem(path, value, maxRetries = 3) mirrors appendItem with PATCH
patchItem(c, path, value, maxRetries) ==
    BeginCall(c, "PATCH", path, value, maxRetries)

\* a client that also retries server errors
RetriedWithServerErrors(status) == status \in {409, 500}

\* response.status === 409: the statuses that are retried
Retried(status) == status = 409

\* a client that returns result.data whatever the status (no !response.ok
\* check)
OnResponseUnchecked(call) ==
    IF Retried(call.status)
    THEN [call EXCEPT !.pc = "backoff", !.conflicts = @ + 1,
                      !.waits = Append(@, BackoffUnit * (call.i + 1))]
    ELSE [call EXCEPT !.pc = "done", !.outcome = "success"]

\* a client whose wait doubles with every conflict
OnResponseExponential(call) ==
    IF Retried(call.status)
    THEN [call EXCEPT !.pc = "backoff", !.conflicts = @ + 1,
                      !.waits = Append(@, BackoffUnit * (2 ^ call.i))]
    ELSE IF call.status < 200 \/ call.status > 299
    THEN [call EXCEPT !.pc = "done", !.outcome = "error"]
    ELSE [call EXCEPT !.pc = "done", !.outcome = "success"]

\* the client's handling of a response: backoff on 409, throw when not ok,
\* return result.data otherwise
OnResponse(call) ==
    IF Retried(call.status)
    THEN [call EXCEPT !.pc = "backoff", !.conflicts = @ + 1,
                      !.waits = Append(@, BackoffUnit * (call.i + 1))]
    ELSE IF call.status < 200 \/ call.status > 299
    THEN [call EXCEPT !.pc = "done", !.outcome = "error"]
    ELSE [call EXCEPT !.pc = "done", !.outcome = "success"]

\* the Error the call has thrown to its caller: its message, "" when the
\* call has thrown none
ErrorMessage(call) ==
    CASE call.outcome = "exhausted" -> "Max retries exceeded"
      [] call.outcome = "error" /\ call.method = "POST" -> "Failed to append item"
      [] call.outcome = "error" /\ call.method = "DELETE" -> "Failed to delete item"
      [] OTHER -> ""

\* the awaited fetch resolves with the response
ReceiveResponse(c) ==
    /\ client[c].pc = "response"
    /\ Continue(c, OnResponse(client[c]))
    /\ Settle(c, OnResponse(client[c]))
    /\ UNCHANGED initial

\* the timer of the backoff fires: continue with i + 1
BackoffElapsed(c) ==
    /\ client[c].pc = "backoff"
    /\ Continue(c, LoopTest(client[c], client[c].i + 1))
    /\ Settle(c, LoopTest(client[c], client[c].i + 1))
    /\ UNCHANGED initial

(***************************************************************************)
(* The server: one handler invocation per request.                         *)
(***************************************************************************)
Body(c) == [method |-> client[c].method, path |-> client[c].path,
            arg |-> client[c].arg]

\* context.res = { status, body } delivered to the client's fetch
Deliver(c, status, data) ==
    /\ client' = [client EXCEPT ![c].pc = "response", ![c].status = status,
                                ![c].result = data]
    /\ handler' = [handler EXCEPT ![c] = IdleHandler]

\* validation, download with ETag, navigate and mutate in memory
HandlerRead(c) ==
    /\ handler[c].pc = "received"
    /\ LET r == HandlerMutate(Body(c), store.exists, store.content)
       IN  IF r.status /= 0
           THEN Deliver(c, r.status, Undefined)
           ELSE /\ handler' = [handler EXCEPT ![c] =
                       [pc |-> "read", etag |-> store.etag, data |-> r.data,
                        readAt |-> Len(writes)]]
                /\ UNCHANGED client
    /\ UNCHANGED <<store, ui, writes, initial>>

\* the download raises an error other than 404 (storage or transport
\* failure): the outer catch answers 500
HandlerDownloadFails(c) ==
    /\ handler[c].pc = "received"
    /\ ~MissingFields(Body(c))
    /\ Deliver(c, 500, Undefined)
    /\ UNCHANGED <<store, ui, writes, initial>>

\* an upload that stores the document before the version is compared: a
\* rejected attempt has written all the same
HandlerUploadThenCheck(c) ==
    /\ handler[c].pc = "read"
    /\ store' = Uploaded(store, handler[c].data)
    /\ writes' = Append(writes,
           WriteRecord("conditional", c, handler[c].etag, Body(c)))
    /\ IF IfMatchHolds(store, handler[c].etag)
       THEN Deliver(c, 200, Stringify(handler[c].data))
       ELSE Deliver(c, 409, Undefined)
    /\ UNCHANGED <<ui, initial>>

\* a handler that answers 200 with the document as it was downloaded
HandlerUploadAnswersRead(c) ==
    /\ handler[c].pc = "read"
    /\ IF IfMatchHolds(store, handler[c].etag)
       THEN /\ store' = Uploaded(store, handler[c].data)
            /\ writes' = Append(writes,
                   WriteRecord("conditional", c, handler[c].etag, Body(c)))
            /\ Deliver(c, 200, store.content)
       ELSE /\ Deliver(c, 409, Undefined)
            /\ UNCHANGED <<store, writes>>
    /\ UNCHANGED <<ui, initial>>

\* a handler that, when its upload is rejected, downloads again and retries
\* by itself instead of answering 409
HandlerUploadRetries(c) ==
    /\ handler[c].pc = "read"
    /\ IF IfMatchHolds(store, handler[c].etag)
       THEN /\ store' = Uploaded(store, handler[c].data)
            /\ writes' = Append(writes,
                   WriteRecord("conditional", c, handler[c].etag, Body(c)))
            /\ Deliver(c, 200, Stringify(handler[c].data))
       ELSE /\ handler' = [handler EXCEPT ![c] = [IdleHandler EXCEPT !.pc = "received"]]
            /\ UNCHANGED <<client, store, writes>>
    /\ UNCHANGED <<ui, initial>>

\* upload with If-Match: 200 with the full document, or 412 -> 409
HandlerUpload(c) ==
    /\ handler[c].pc = "read"
    /\ IF IfMatchHolds(store, handler[c].etag)
       THEN /\ store' = Uploaded(store, handler[c].data)
            /\ writes' = Append(writes,
                   WriteRecord("conditional", c, handler[c].etag, Body(c)))
            /\ Deliver(c, 200, Stringify(handler[c].data))
       ELSE /\ Deliver(c, 409, Undefined)
            /\ UNCHANGED <<store, writes>>
    /\ UNCHANGED <<ui, initial>>

\* the PUT handler: the body is uploaded unconditionally (overwrite: true,
\* no conditions), creating the blob when there is none
PutHandler(c, data) ==
    /\ store' = Uploaded(store, data)
    /\ writes' = Append(writes, WriteRecord("put", c, 0,
                     [method |-> "PUT", path |-> EmptyPath, arg |-> data]))

\* the upload raises an error other than 412: rethrown, the outer catch
\* answers 500 and nothing is stored
HandlerUploadFails(c) ==
    /\ handler[c].pc = "read"
    /\ Deliver(c, 500, Undefined)
    /\ UNCHANGED <<store, ui, writes, initial>>

(***************************************************************************)
(* The SwarmSpace page: loadSession / createList and the handlers that     *)
(* issue the atomic operations.                                            *)
(***************************************************************************)
NewPage == [phase |-> "unloaded", session |-> DEFAULT_SESSION,
            errorShown |-> FALSE, puts |-> 0, project |-> Undefined,
            commentTarget |-> Undefined, sync |-> NoSync, handed |-> {}]

\* loadSession: api.fetchTasks (GET); a 404 leads to createList
loadSession(c) ==
    /\ ui[c].phase = "unloaded"
    /\ ui' = [ui EXCEPT ![c].phase = IF store.exists THEN "ready" ELSE "creating",
                        ![c].session = setSession(IF store.exists
                                                  THEN store.content ELSE Null)]
    /\ UNCHANGED <<store, client, handler, writes, initial>>

\* createList: PUT of the local (default) session
createList(c) ==
    /\ ui[c].phase = "creating"
    /\ PutHandler(c, ui[c].session)
    /\ ui' = [ui EXCEPT ![c].phase = "ready", ![c].puts = @ + 1]
    /\ UNCHANGED <<client, handler, initial>>

\* session.weeks.findIndex(w => w.id === weekId), from 0, -1 when absent
getWeekIndex(session, weekId) ==
    FindIndex(GetProp(session, "weeks").v, weekId) - 1

\* `weeks.${weekIndex}.event.comments`
getCommentPath(weekIndex) == <<"weeks", NumberKey(weekIndex), "event", "comments">>

\* the ids of the items of a local array
IdsIn(session, key) ==
    {GetProp(GetProp(session, key).v[i], "id") :
        i \in 1..Len(GetProp(session, key).v)}

\* a handler of the page starts an atomic operation
Begins(c) ==
    /\ ui[c].phase = "ready"
    /\ client[c].pc = "idle"
    /\ ui' = [ui EXCEPT ![c].phase = "saving"]
    /\ UNCHANGED <<store, writes, initial>>

\* handleSaveComment: api.appendItem(path, comment) on a week of the local
\* session
handleSaveComment(c) ==
    /\ Begins(c)
    /\ \E weekId \in IdsIn(ui[c].session, "weeks") :
          /\ getWeekIndex(ui[c].session, weekId) /= -1
          /\ appendItem(c, getCommentPath(getWeekIndex(ui[c].session, weekId)),
                        Item(c), DefaultMaxRetries)

\* handleSaveResource: api.appendItem('resources', resource)
handleSaveResource(c) ==
    /\ Begins(c)
    /\ appendItem(c, <<"resources">>, Item(c), DefaultMaxRetries)

\* handleAddWeek: api.appendItem('weeks', newWeek)
handleAddWeek(c) ==
    /\ Begins(c)
    /\ appendItem(c, <<"weeks">>, NewWeek(c), DefaultMaxRetries)

\* handleResourcesClick, delete-resource: api.deleteItem('resources', id)
handleResourcesClick(c) ==
    /\ Begins(c)
    /\ \E resourceId \in IdsIn(ui[c].session, "resources") :
          deleteItem(c, <<"resources">>, resourceId, DefaultMaxRetries)

\* handleMetaChange: api.patchItem('title', title)
handleMetaChange(c) ==
    /\ Begins(c)
    /\ patchItem(c, <<"title">>, Str("x"), DefaultMaxRetries)

(***************************************************************************)
(* The general specification: NumPages SwarmSpace pages on one session     *)
(* document, each loading the session and issuing one atomic operation.    *)
(***************************************************************************)
Pages == 1..NumPages

InitOf(clients, stores) ==
    /\ store \in stores
    /\ client = [c \in clients |-> IdleClient]
    /\ handler = [c \in clients |-> IdleHandler]
    /\ ui = [c \in clients |-> NewPage]
    /\ writes = <<>>
    /\ initial = store

Init == InitOf(Pages, {NoStore, StoreOf(SessionDoc)})

Next ==
    \E c \in Pages :
        \/ loadSession(c)
        \/ createList(c)
        \/ handleSaveComment(c)
        \/ handleSaveResource(c)
        \/ handleResourcesClick(c)
        \/ HandlerRead(c)
        \/ HandlerUpload(c)
        \/ ReceiveResponse(c)
        \/ BackoffElapsed(c)

Spec == Init /\ [][Next]_vars

(***************************************************************************)
(* The server specification: NumRequesters callers, each issuing one       *)
(* appendItem / deleteItem call, one PATCH request or one PUT of a whole   *)
(* document, against a store that may fail.                                *)
(***************************************************************************)
Requesters == 1..NumRequesters

\* a call made outside a page: the caller only awaits it
Calls(c) ==
    /\ client[c].pc = "idle"
    /\ UNCHANGED <<store, ui, writes, initial>>

RequestAppend(c) ==
    /\ Calls(c)
    /\ \E path \in {<<"resources">>, <<"weeks">>, <<"title">>} :
          appendItem(c, path, IF path = <<"weeks">> THEN NewWeek(c) ELSE Item(c),
                     DefaultMaxRetries)

RequestDelete(c) ==
    /\ Calls(c)
    /\ \E id \in {"r0", "zz"} :
          deleteItem(c, <<"resources">>, Str(id), DefaultMaxRetries)

\* a PATCH request { path, value } sent once: whatever the answer, the
\* requester sends no other
RequestPatch(c) ==
    /\ Calls(c)
    /\ \E path \in {<<"title">>, <<"weeks", "0", "weekNumber">>} :
          BeginCall(c, "PATCH", path,
                    IF path = <<"title">> THEN Str("x") ELSE Num(2), 1)

\* a PUT request with a whole document as its body
RequestPut(c) ==
    /\ client[c].pc = "idle"
    /\ PutHandler(c, DEFAULT_SESSION)
    /\ client' = [client EXCEPT ![c] =
           [IdleClient EXCEPT !.pc = "done", !.method = "PUT", !.status = 200,
                              !.outcome = "success"]]
    /\ UNCHANGED <<handler, ui, initial>>

InitServer == InitOf(Requesters, {NoStore, StoreOf(SessionDoc)})

NextServer ==
    \E c \in Requesters :
        \/ RequestAppend(c)
        \/ RequestDelete(c)
        \/ RequestPatch(c)
        \/ RequestPut(c)
        \/ HandlerRead(c)
        \/ HandlerDownloadFails(c)
        \/ HandlerUpload(c)
        \/ HandlerUploadFails(c)
        \/ ReceiveResponse(c)
        \/ BackoffElapsed(c)

SpecServer == InitServer /\ [][NextServer]_vars

(***************************************************************************)
(* The pair specification: two clients concurrently calling appendItem     *)
(* with the default maxRetries, and nothing else.                          *)
(***************************************************************************)
Pair == {1, 2}

\* the array paths of the stored documents
ArrayPaths == {<<"resources">>, <<"weeks">>, <<"weeks", "0", "event", "comments">>}

\* the value a client appends at a path
ValueFor(c, path) == IF path = <<"weeks">> THEN NewWeek(c) ELSE Item(c)

AppendDefault(c) ==
    /\ Calls(c)
    /\ \E path \in ArrayPaths :
          /\ navigateToPath(store.content, path).t = "arr"
          /\ appendItem(c, path, ValueFor(c, path), DefaultMaxRetries)

InitPair == InitOf(Pair, {StoreOf(SessionDoc), StoreOf(DEFAULT_SESSION)})

NextPair ==
    \E c \in Pair :
        \/ AppendDefault(c)
        \/ HandlerRead(c)
        \/ HandlerUpload(c)
        \/ ReceiveResponse(c)
        \/ BackoffElapsed(c)

SpecPair == InitPair /\ [][NextPair]_vars

(***************************************************************************)
(* The append-only specification: NumAppenders clients calling appendItem  *)
(* on the array paths, with any maxRetries up to the default.              *)
(***************************************************************************)
Appenders == 1..NumAppenders

AppendAny(c) ==
    /\ Calls(c)
    /\ \E path \in {<<"resources">>, <<"weeks">>}, maxRetries \in {1, DefaultMaxRetries} :
          appendItem(c, path, ValueFor(c, path), maxRetries)

InitAppend == InitOf(Appenders, {StoreOf(SessionDoc)})

NextAppend ==
    \E c \in Appenders :
        \/ AppendAny(c)
        \/ HandlerRead(c)
        \/ HandlerUpload(c)
        \/ ReceiveResponse(c)
        \/ BackoffElapsed(c)

SpecAppend == InitAppend /\ [][NextAppend]_vars

(***************************************************************************)
(* The retry-client specification: one caller of appendItem / deleteItem   *)
(* against a server that may answer each request with any status.          *)
(***************************************************************************)
Callers == {1}

\* the statuses of the handler's responses
Statuses == {200, 400, 404, 409, 500}

CallAny(c) ==
    /\ Calls(c)
    /\ \E maxRetries \in 0..MaxRetriesTried :
          \/ appendItem(c, <<"resources">>, Item(c), maxRetries)
          \/ deleteItem(c, <<"resources">>, Str("r0"), maxRetries)

\* the server answers the request with some status
Responds(c) ==
    /\ handler[c].pc = "received"
    /\ \E status \in Statuses :
          Deliver(c, status, IF status = 200 THEN SessionDoc ELSE Undefined)
    /\ UNCHANGED <<store, ui, writes, initial>>

InitRetry == InitOf(Callers, {StoreOf(SessionDoc)})

NextRetry ==
    \E c \in Callers :
        \/ CallAny(c)
        \/ Responds(c)
        \/ ReceiveResponse(c)
        \/ BackoffElapsed(c)

SpecRetry == InitRetry /\ [][NextRetry]_vars

\* the event loop runs every task that is ready, timers fire and the server
\* answers every request
SpecRetryFair == SpecRetry /\ WF_vars(NextRetry)

(***************************************************************************)
(* The two-caller specification: two callers of appendItem / deleteItem,   *)
(* each against a server that may answer each request with any status.     *)
(***************************************************************************)
TwoCallers == {1, 2}

InitTwoCallers == InitOf(TwoCallers, {StoreOf(SessionDoc)})

NextTwoCallers ==
    \E c \in TwoCallers :
        \/ CallAny(c)
        \/ Responds(c)
        \/ ReceiveResponse(c)
        \/ BackoffElapsed(c)

SpecTwoCallers == InitTwoCallers /\ [][NextTwoCallers]_vars

(***************************************************************************)
(* The handler specification: one request of any method, path and          *)
(* argument against any stored document of the universe, or against no     *)
(* document at all.                                                        *)
(***************************************************************************)
\* a resource { id, name }
Resource(id, name) == Obj([id |-> Str(id), name |-> Str(name)])

\* a stored document with a field of every JSON type, a nested object and
\* an array in which two elements bear the same id
MixedDoc ==
    Obj([title |-> Str("x"), startingWeek |-> Num(5), open |-> Bool(TRUE),
         currentWeekId |-> Null,
         weeks |-> Arr(<<Obj([id |-> Str("w1"), weekNumber |-> Num(1),
                              event |-> Obj([text |-> Str(""),
                                             comments |-> Arr(<<>>)])])>>),
         resources |-> Arr(<<Resource("r1", "c1"), Resource("r2", "c2"),
                             Resource("r1", "c3"), Resource("r0", "c4")>>)])

\* a stored session with two weeks, the second with one completion
TwoWeekDoc ==
    Obj([title |-> Str(""),
         weeks |-> Arr(<<Obj([id |-> Str("w1"), weekNumber |-> Num(1),
                              completions |-> Arr(<<>>)]),
                         Obj([id |-> Str("w2"), weekNumber |-> Num(2),
                              completions |-> Arr(<<Obj([id |-> Str("c6")])>>)])>>),
         resources |-> Arr(<<>>)])

Documents == {SessionDoc, DEFAULT_SESSION, MixedDoc, TwoWeekDoc}

\* the paths of the requests: array fields, fields of every other type,
\* missing fields, and paths through each of them
RequestPaths ==
    {EmptyPath, <<"resources">>, <<"weeks">>, <<"title">>, <<"startingWeek">>,
     <<"open">>, <<"currentWeekId">>, <<"missing">>,
     <<"weeks", "0", "event", "comments">>, <<"weeks", "0", "event", "text">>,
     <<"weeks", "0", "weekNumber">>, <<"weeks", "0", "missing">>,
     <<"weeks", "1", "completions">>,
     <<"weeks", "5", "event">>, <<"resources", "0">>, <<"resources", "6">>,
     <<"resources", "length">>,
     <<"title", "0">>, <<"title", "missing">>, <<"startingWeek", "missing">>,
     <<"open", "missing">>, <<"currentWeekId", "missing">>,
     <<"missing", "missing">>, <<"title", "0", "missing">>,
     <<"currentWeekId", "missing", "missing">>}

\* the arguments of the requests: value of POST and PATCH, id of DELETE
RequestArgs(c, method) ==
    CASE method = "POST" -> {Item(c), Num(2)}
      [] method = "DELETE" -> {Str("r0"), Str("r1"), Str("w1"), Str("zz"), Str("")}
      [] method = "PATCH" -> {Str("c1"), Num(2), Null, Undefined}

\* a POST or DELETE through the retry client, or a PATCH request
RequestAny(c) ==
    /\ Calls(c)
    /\ \E method \in {"POST", "DELETE", "PATCH"}, path \in RequestPaths :
          \E arg \in RequestArgs(c, method) :
              BeginCall(c, method, path, arg,
                        IF method = "PATCH" THEN 1 ELSE DefaultMaxRetries)

InitHandler == InitOf(Callers, {NoStore} \cup {StoreOf(d) : d \in Documents})

NextHandler ==
    \E c \in Callers :
        \/ RequestAny(c)
        \/ HandlerRead(c)
        \/ HandlerUpload(c)
        \/ ReceiveResponse(c)

SpecHandler == InitHandler /\ [][NextHandler]_vars

(***************************************************************************)
(* The weeks specification: NumWeekAdders clients concurrently appending   *)
(* a week to 'weeks' through appendItem, with or without a weekNumber of   *)
(* their own, to a session with no week or with one.                       *)
(***************************************************************************)
WeekAdders == 1..NumWeekAdders

\* the weekNumber an importing client puts on the first week
\* (newWeek.weekNumber = startingWeekNumber)
StartingWeekNumber == 6

\* the weeks a client may send: handleAddWeek's newWeek (no weekNumber), the
\* import's first week (weekNumber = startingWeekNumber), a week numbered 0;
\* under an id of its own or under the id of an imported week
WeeksOf(c) ==
    LET bare == {NewWeek(c),
                 SetField(NewWeek(c), "id", Str("w2"))}
    IN  bare \cup {SetField(w, "weekNumber", Num(n)) :
                      w \in bare, n \in {0, StartingWeekNumber}}

AddWeek(c) ==
    /\ Calls(c)
    /\ \E newWeek \in WeeksOf(c) :
          appendItem(c, <<"weeks">>, newWeek, DefaultMaxRetries)

InitWeeks == InitOf(WeekAdders, {StoreOf(DEFAULT_SESSION), StoreOf(SessionDoc)})

NextWeeks ==
    \E c \in WeekAdders :
        \/ AddWeek(c)
        \/ HandlerRead(c)
        \/ HandlerUpload(c)
        \/ ReceiveResponse(c)
        \/ BackoffElapsed(c)

SpecWeeks == InitWeeks /\ [][NextWeeks]_vars

(***************************************************************************)
(* The cross-path specification: one client patching a field and another   *)
(* client appending to an array or patching a field at a different path    *)
(* of the same session, each request sent again when it is answered 409.   *)
(***************************************************************************)
CrossClients == {1, 2}

\* an event object as a PATCH replaces it
NewEvent == Obj([text |-> Str("c2"), comments |-> Arr(<<>>)])

\* the PATCH requests { path, value } of the clients
Patches ==
    {[path |-> <<"title">>, arg |-> Str("x")],
     [path |-> <<"weeks", "0", "weekNumber">>, arg |-> Num(2)],
     [path |-> <<"weeks", "0", "event", "text">>, arg |-> Str("x")],
     [path |-> <<"weeks", "0", "event">>, arg |-> NewEvent]}

\* the other client has not asked for this path
OnOtherPath(c, path) ==
    \A d \in CrossClients \ {c} : client[d].pc = "idle" \/ client[d].path /= path

\* a PATCH request { path, value }
PatchOnce(c) ==
    /\ Calls(c)
    /\ \E p \in Patches :
          /\ OnOtherPath(c, p.path)
          /\ BeginCall(c, "PATCH", p.path, p.arg, 1)

\* the PATCH was answered 409 'Conflict, please retry': the same request is
\* sent again
PatchAgain(c) ==
    /\ client[c].pc = "done"
    /\ client[c].method = "PATCH"
    /\ client[c].status = 409
    /\ BeginCall(c, "PATCH", client[c].path, client[c].arg, 1)
    /\ UNCHANGED <<store, ui, writes, initial>>

\* the second client appends instead
AppendOnce(c) ==
    /\ Calls(c)
    /\ c = 2
    /\ \E path \in ArrayPaths :
          /\ OnOtherPath(c, path)
          /\ appendItem(c, path, ValueFor(c, path), DefaultMaxRetries)

InitCross == InitOf(CrossClients, {StoreOf(SessionDoc)})

NextCross ==
    \E c \in CrossClients :
        \/ PatchOnce(c)
        \/ PatchAgain(c)
        \/ AppendOnce(c)
        \/ HandlerRead(c)
        \/ HandlerUpload(c)
        \/ ReceiveResponse(c)
        \/ BackoffElapsed(c)

SpecCross == InitCross /\ [][NextCross]_vars

(***************************************************************************)
(* The save specification: two pages of the tasks client calling           *)
(* saveTasks (GET, mutate, PUT of the whole document) on one task list.    *)
(***************************************************************************)
Savers == {1, 2}

\* addTask's newTask: { name, status: 'not-started', tags: [] }
Task(name) ==
    Obj([name |-> Str(name), status |-> Str("not-started"), tags |-> Arr(<<>>)])

\* if (mutate) mutate(serverTasks): addTask pushes the task; no mutate
\* leaves the tasks as they were fetched
Mutated(serverTasks, task) ==
    IF task.t = "undef" \/ serverTasks.t /= "arr" THEN serverTasks
    ELSE Arr(Append(serverTasks.v, task))

\* saveTasks up to its PUT: the GET of the latest tasks (the call throws
\* 'Failed to fetch latest tasks' when it is not answered ok) and the
\* mutation of what it returned
GetAnswered(c, task) ==
    IF store.exists
    THEN /\ client' = [client EXCEPT ![c] =
                [IdleClient EXCEPT !.pc = "mutated", !.method = "PUT",
                                   !.arg = task, !.requests = 1,
                                   !.result = Mutated(store.content, task)]]
         /\ handler' = [handler EXCEPT ![c] =
                [IdleHandler EXCEPT !.etag = store.etag,
                                    !.readAt = Len(writes)]]
    ELSE /\ client' = [client EXCEPT ![c] =
                [IdleClient EXCEPT !.pc = "done", !.method = "PUT",
                                   !.arg = task, !.requests = 1,
                                   !.status = 404, !.outcome = "error"]]
         /\ UNCHANGED handler

saveTasksGet(c) ==
    /\ client[c].pc = "idle"
    /\ \E task \in {Task(IdOf(c)), Undefined} : GetAnswered(c, task)
    /\ UNCHANGED <<store, ui, writes, initial>>

\* a saveTasks whose PUT carries If-Match with the version of its GET
saveTasksPutIfMatch(c) ==
    /\ client[c].pc = "mutated"
    /\ IF IfMatchHolds(store, handler[c].etag)
       THEN /\ PutHandler(c, client[c].result)
            /\ client' = [client EXCEPT ![c].pc = "done", ![c].status = 200,
                                        ![c].requests = 2,
                                        ![c].outcome = "success"]
       ELSE /\ client' = [client EXCEPT ![c].pc = "done", ![c].status = 409,
                                        ![c].requests = 2,
                                        ![c].outcome = "error"]
            /\ UNCHANGED <<store, writes>>
    /\ UNCHANGED <<handler, ui, initial>>

\* the PUT of the mutated tasks; the call returns serverTasks
saveTasksPut(c) ==
    /\ client[c].pc = "mutated"
    /\ PutHandler(c, client[c].result)
    /\ client' = [client EXCEPT ![c].pc = "done", ![c].status = 200,
                                ![c].requests = 2, ![c].outcome = "success"]
    /\ UNCHANGED <<handler, ui, initial>>

\* the PUT is not answered ok (a storage failure): the call throws 'Failed
\* to save' and nothing is stored
saveTasksPutFails(c) ==
    /\ client[c].pc = "mutated"
    /\ client' = [client EXCEPT ![c].pc = "done", ![c].status = 500,
                                ![c].requests = 2, ![c].outcome = "error"]
    /\ UNCHANGED <<store, handler, ui, writes, initial>>

InitSave ==
    InitOf(Savers, {NoStore, StoreOf(Arr(<<>>)), StoreOf(Arr(<<Task("x")>>))})

NextSave ==
    \E c \in Savers :
        \/ saveTasksGet(c)
        \/ saveTasksPut(c)
        \/ saveTasksPutFails(c)

SpecSave == InitSave /\ [][NextSave]_vars

(***************************************************************************)
(* The project specification: a page running handleSaveProject (PATCH of   *)
(* the action, POST of the missing weeks, POST of the completion) while    *)
(* another page adds weeks, against a store that may fail.                 *)
(***************************************************************************)
ProjectPages == {1, 2}

\* a week as the pages create it: event, discussion action, no completion
DiscussionWeek(id) ==
    Obj([id |-> Str(id),
         event |-> Obj([text |-> Str(""), comments |-> Arr(<<>>)]),
         action |-> Obj([type |-> Str("discussion"), text |-> Str(""),
                         comments |-> Arr(<<>>)]),
         completions |-> Arr(<<>>)])

\* a stored session with one such week, numbered 1
ProjectDoc ==
    Obj([title |-> Str(""),
         weeks |-> Arr(<<SetField(DiscussionWeek("w1"), "weekNumber", Num(1))>>),
         resources |-> Arr(<<>>)])

\* the durations entered in the project dialog
Durations == {1}

\* session.weeks.findIndex(w => w.weekNumber === completionWeekNum), from
\* 1, 0 when there is none
FindWeekNumbered(weeks, weekNumber) ==
    IF \E i \in 1..Len(weeks) : GetProp(weeks[i], "weekNumber") = Num(weekNumber)
    THEN CHOOSE i \in 1..Len(weeks) :
            /\ GetProp(weeks[i], "weekNumber") = Num(weekNumber)
            /\ \A j \in 1..(i - 1) :
                  GetProp(weeks[j], "weekNumber") /= Num(weekNumber)
    ELSE 0

\* handleSaveProject up to its first await: the PATCH of the action of the
\* source week, through api.patchItem with its default maxRetries
handleSaveProject(c) ==
    /\ ui[c].phase = "ready"
    /\ client[c].pc = "idle"
    /\ \E weekId \in IdsIn(ui[c].session, "weeks"), duration \in Durations :
          LET weekIndex == getWeekIndex(ui[c].session, weekId)
              week == GetProp(ui[c].session, "weeks").v[weekIndex + 1]
              comments == GetProp(GetProp(week, "action"), "comments")
              newAction ==
                  Obj([type |-> Str("project"), projectName |-> Str("x"),
                       projectDuration |-> Num(duration),
                       comments |-> IF Truthy(comments) THEN comments
                                    ELSE Arr(<<>>)])
          IN  /\ weekIndex /= -1
              /\ GetProp(week, "weekNumber").t = "num"
              /\ GetProp(week, "action").t = "obj"
              /\ ui' = [ui EXCEPT ![c].phase = "patching",
                                  ![c].project =
                                      [source |-> weekId,
                                       completionWeekNum |->
                                           GetProp(week, "weekNumber").v + duration]]
              /\ patchItem(c, <<"weeks", NumberKey(weekIndex), "action">>,
                           newAction, DefaultMaxRetries)
    /\ UNCHANGED <<store, writes, initial>>

\* handleSaveProject resumes after an await: the catch when the call threw;
\* otherwise setSession(updatedDoc), then the while loop that appends the
\* missing weeks, then the append of the completion to the target week
handleSaveProjectResumes(c) ==
    /\ ui[c].phase \in {"patching", "adding", "completing"}
    /\ client[c].pc = "done"
    /\ IF client[c].outcome /= "success"
       THEN /\ ui' = [ui EXCEPT ![c].phase = "ready", ![c].errorShown = TRUE]
            /\ UNCHANGED <<client, handler>>
       ELSE LET session == setSession(client[c].result)
                weeks == GetProp(session, "weeks").v
                completionWeekNum == ui[c].project.completionWeekNum
                last == GetProp(weeks[Len(weeks)], "weekNumber")
                target == FindWeekNumbered(weeks, completionWeekNum)
            IN  IF ui[c].phase = "completing"
                THEN /\ ui' = [ui EXCEPT ![c].phase = "ready",
                                         ![c].session = session]
                     /\ UNCHANGED <<client, handler>>
                ELSE IF Len(weeks) = 0
                        \/ (last.t = "num" /\ last.v < completionWeekNum)
                THEN /\ ui' = [ui EXCEPT ![c].phase = "adding",
                                         ![c].session = session]
                     /\ appendItem(c, <<"weeks">>, DiscussionWeek(IdOf(c)),
                                   DefaultMaxRetries)
                ELSE IF target /= 0
                THEN /\ ui' = [ui EXCEPT ![c].phase = "completing",
                                         ![c].session = session]
                     /\ appendItem(c, <<"weeks", NumberKey(target - 1),
                                        "completions">>,
                                   Obj([id |-> Str(IdOf(c)),
                                        projectName |-> Str("x"),
                                        comments |-> Arr(<<>>)]),
                                   DefaultMaxRetries)
                ELSE /\ ui' = [ui EXCEPT ![c].phase = "ready",
                                         ![c].session = session]
                     /\ UNCHANGED <<client, handler>>
    /\ UNCHANGED <<store, writes, initial>>

InitProject == InitOf(ProjectPages, {StoreOf(ProjectDoc)})

NextProject ==
    \E c \in ProjectPages :
        \/ loadSession(c)
        \/ (c = 1 /\ handleSaveProject(c))
        \/ handleSaveProjectResumes(c)
        \/ (c = 2 /\ handleAddWeek(c))
        \/ HandlerRead(c)
        \/ HandlerUpload(c)
        \/ HandlerUploadFails(c)
        \/ ReceiveResponse(c)
        \/ BackoffElapsed(c)

SpecProject == InitProject /\ [][NextProject]_vars

(***************************************************************************)
(* The deleters specification: two clients concurrently calling deleteItem *)
(* with the same path and the same id, of an element that the stored       *)
(* array holds once, and nothing else.                                     *)
(***************************************************************************)
Deleters == {1, 2}

\* the arrays and ids of the elements the calls delete
DeleteTargets ==
    {<<<<"resources">>, "r0">>, <<<<"weeks">>, "w1">>, <<<<"weeks">>, "w2">>,
     <<<<"weeks", "1", "completions">>, "c6">>}

\* the number of elements of the array with the id
OccurrencesOf(items, id) ==
    Cardinality({i \in 1..Len(items) :
                    items[i].t = "obj" /\ GetProp(items[i], "id") = id})

DeleteSame(c) ==
    /\ Calls(c)
    /\ \E target \in DeleteTargets :
          /\ navigateToPath(initial.content, target[1]).t = "arr"
          /\ OccurrencesOf(navigateToPath(initial.content, target[1]).v,
                           Str(target[2])) = 1
          /\ \A d \in Deleters :
                client[d].method = "DELETE" =>
                    client[d].path = target[1] /\ client[d].arg = Str(target[2])
          /\ deleteItem(c, target[1], Str(target[2]), DefaultMaxRetries)

InitDeleters ==
    InitOf(Deleters, {StoreOf(SessionDoc), StoreOf(MixedDoc), StoreOf(TwoWeekDoc)})

NextDeleters ==
    \E c \in Deleters :
        \/ DeleteSame(c)
        \/ HandlerRead(c)
        \/ HandlerUpload(c)
        \/ ReceiveResponse(c)
        \/ BackoffElapsed(c)

SpecDeleters == InitDeleters /\ [][NextDeleters]_vars

(***************************************************************************)
(* The comments specification: two SwarmSpace pages on a session whose     *)
(* week holds three completions, each page adding a comment to a           *)
(* completion or deleting a completion.                                    *)
(***************************************************************************)
CommentPages == {1, 2}

Completion(id) == Obj([id |-> Str(id), comments |-> Arr(<<>>)])

\* a stored session with one week and its completions
CompletionsDoc ==
    Obj([title |-> Str(""),
         weeks |-> Arr(<<Obj([id |-> Str("w1"), weekNumber |-> Num(1),
                              completions |-> Arr(<<Completion("ca"),
                                                    Completion("cb"),
                                                    Completion("cc")>>)])>>),
         resources |-> Arr(<<>>)])

\* getCommentPath(weekIndex, 'completion:' + completionId): the index of the
\* completion is looked up in the local session
getCompletionCommentPath(session, weekIndex, completionId) ==
    LET week == GetProp(session, "weeks").v[weekIndex + 1]
        compIndex == FindIndex(GetProp(week, "completions").v, completionId) - 1
    IN  <<"weeks", NumberKey(weekIndex), "completions", NumberKey(compIndex),
          "comments">>

\* the ids of the completions of the local week
CompletionIds(session, weekId) ==
    LET week == GetProp(session, "weeks").v[getWeekIndex(session, weekId) + 1]
    IN  {GetProp(GetProp(week, "completions").v[i], "id") :
            i \in 1..Len(GetProp(week, "completions").v)}

\* handleSaveComment with currentCommentTarget = { weekId, 'completion:id' }
handleSaveCompletionComment(c) ==
    /\ ui[c].phase = "ready"
    /\ client[c].pc = "idle"
    /\ \E weekId \in IdsIn(ui[c].session, "weeks") :
          \E completionId \in CompletionIds(ui[c].session, weekId) :
              /\ ui' = [ui EXCEPT ![c].phase = "saving",
                                  ![c].commentTarget =
                                      [weekId |-> weekId,
                                       completionId |-> completionId]]
              /\ appendItem(c, getCompletionCommentPath(ui[c].session,
                                    getWeekIndex(ui[c].session, weekId),
                                    completionId),
                            Item(c), DefaultMaxRetries)
    /\ UNCHANGED <<store, writes, initial>>

\* the 'delete-completion' click: api.deleteItem on the completions of the
\* week
handleDeleteCompletion(c) ==
    /\ Begins(c)
    /\ \E weekId \in IdsIn(ui[c].session, "weeks") :
          \E completionId \in CompletionIds(ui[c].session, weekId) :
              deleteItem(c, <<"weeks",
                              NumberKey(getWeekIndex(ui[c].session, weekId)),
                              "completions">>,
                         completionId, DefaultMaxRetries)

InitComments == InitOf(CommentPages, {StoreOf(CompletionsDoc)})

NextComments ==
    \E c \in CommentPages :
        \/ loadSession(c)
        \/ handleSaveCompletionComment(c)
        \/ handleDeleteCompletion(c)
        \/ HandlerRead(c)
        \/ HandlerUpload(c)
        \/ ReceiveResponse(c)
        \/ BackoffElapsed(c)

SpecComments == InitComments /\ [][NextComments]_vars

(***************************************************************************)
(* The sync specification: one page whose sync module is initialised,      *)
(* ticks every POLL_INTERVAL, is reset by user actions, refreshed by hand  *)
(* and stopped, while the clock of the browser advances.                   *)
(***************************************************************************)
SyncPages == {1}

\* the clock advances in steps of half a poll interval, up to the horizon
TimeStep == POLL_INTERVAL \div 2
Horizon == PAUSE_AFTER + 3 * POLL_INTERVAL

OnlySync(c) == UNCHANGED <<store, client, handler, writes, initial>>

\* time passes; a timer that is due fires before more time passes
TimePasses(c) ==
    /\ ui[c].sync.now < Horizon
    /\ ui[c].sync.syncInterval => ui[c].sync.now < ui[c].sync.due
    /\ ui' = [ui EXCEPT ![c].sync.now = @ + TimeStep]
    /\ OnlySync(c)

\* SwarmSpaceSync.init(api, handleSyncRefresh) at the end of the page's init
SyncInit(c) ==
    /\ ui[c].phase = "ready"
    /\ ~ui[c].sync.api
    /\ ui' = [ui EXCEPT ![c].sync =
                  startPolling([@ EXCEPT !.api = TRUE, !.stopped = FALSE,
                                         !.lastOp = "init"])]
    /\ OnlySync(c)

\* the timer fires
Tick(c) ==
    /\ ui[c].sync.syncInterval
    /\ ui[c].sync.now >= ui[c].sync.due
    /\ Len(ui[c].sync.polls) < MaxPolls
    /\ ui' = [ui EXCEPT ![c].sync =
                  Ticked([@ EXCEPT !.lastTick = ui[c].sync.now,
                                   !.lastOp = "tick",
                                   !.due = @ + POLL_INTERVAL])]
    /\ OnlySync(c)

\* a user action of the page ends with SwarmSpaceSync.resetActivity()
UserActs(c) ==
    /\ ui[c].sync.api
    /\ ui' = [ui EXCEPT ![c].sync = resetActivity(@)]
    /\ OnlySync(c)

\* the click on the sync indicator: manualRefresh() up to its await
ManualRefresh(c) ==
    /\ ui[c].sync.api
    /\ Len(ui[c].sync.polls) < MaxPolls
    /\ ui' = [ui EXCEPT ![c].sync = refreshFromServer(@, TRUE)]
    /\ OnlySync(c)

\* the GET handler downloads the blob for a refresh
FetchServed(c) ==
    /\ \E i \in 1..Len(ui[c].sync.polls) :
          /\ ui[c].sync.polls[i].pc = "sent"
          /\ ui' = [ui EXCEPT ![c].sync.polls[i] =
                        IF store.exists
                        THEN [@ EXCEPT !.pc = "read", !.data = store.content]
                        ELSE [@ EXCEPT !.pc = "failed"]]
    /\ OnlySync(c)

\* the sequence without its i-th element
Removed(seq, i) == SubSeq(seq, 1, i - 1) \o SubSeq(seq, i + 1, Len(seq))

\* the response of a refresh arrives: onSyncCallback(data) =
\* handleSyncRefresh sets the session; fetchTasks throwing is caught;
\* manualRefresh goes on with resetActivity()
FetchDelivered(c) ==
    /\ \E i \in 1..Len(ui[c].sync.polls) :
          LET poll == ui[c].sync.polls[i]
              rest == [ui[c].sync EXCEPT !.polls = Removed(@, i)]
          IN  /\ poll.pc \in {"read", "failed"}
              /\ ui' = [ui EXCEPT
                    ![c].session = IF poll.pc = "read" THEN setSession(poll.data)
                                   ELSE @,
                    ![c].sync = IF poll.manual THEN resetActivity(rest) ELSE rest]
    /\ OnlySync(c)

\* SwarmSpaceSync.stop()
Stop(c) ==
    /\ ui[c].sync.api
    /\ ui' = [ui EXCEPT ![c].sync = stop(@)]
    /\ OnlySync(c)

InitSync == InitOf(SyncPages, {StoreOf(SessionDoc)})

NextSync ==
    \E c \in SyncPages :
        \/ loadSession(c)
        \/ SyncInit(c)
        \/ TimePasses(c)
        \/ Tick(c)
        \/ UserActs(c)
        \/ ManualRefresh(c)
        \/ FetchServed(c)
        \/ FetchDelivered(c)
        \/ Stop(c)

SpecSync == InitSync /\ [][NextSync]_vars

(***************************************************************************)
(* The poll specification: one page that polls while it saves a resource.  *)
(***************************************************************************)
NextPoll ==
    \E c \in SyncPages :
        \/ loadSession(c)
        \/ SyncInit(c)
        \/ TimePasses(c)
        \/ Tick(c)
        \/ FetchServed(c)
        \/ FetchDelivered(c)
        \/ handleSaveResource(c)
        \/ HandlerRead(c)
        \/ HandlerUpload(c)
        \/ ReceiveResponse(c)

SpecPoll == InitSync /\ [][NextPoll]_vars

(***************************************************************************)
(* The tasks specification: the task-list page (tasks.js), which applies   *)
(* a mutation to its local tasks and hands it to saveTasks behind the      *)
(* isSaving guard.  The phase "saving" of the page is isSaving; handed is  *)
(* history: the names of the tasks whose addition was handed to saveTasks. *)
(***************************************************************************)
TaskPages == {1}

\* the names the user enters
TaskNames == {"a", "b", "c"}

\* fetchTasks of the page: TaskStore.setTasks(tasks)
fetchTasks(c) ==
    /\ ui[c].phase = "unloaded"
    /\ store.exists
    /\ ui' = [ui EXCEPT ![c].phase = "ready", ![c].session = store.content]
    /\ UNCHANGED <<store, client, handler, writes, initial>>

\* handleAddTask: TaskStore.addTask(name), then saveTasks(mutate) up to its
\* first await: skipped when isSaving, otherwise the GET is sent
handleAddTask(c) ==
    /\ ui[c].phase \in {"ready", "saving"}
    /\ \E name \in TaskNames \ ui[c].handed :
          /\ ui' = [ui EXCEPT ![c].session = Mutated(@, Task(name)),
                              ![c].handed = @ \cup {name},
                              ![c].phase = "saving"]
          /\ IF ui[c].phase = "saving"
             THEN UNCHANGED client
             ELSE client' = [client EXCEPT ![c] =
                      [IdleClient EXCEPT !.pc = "getting", !.method = "PUT",
                                         !.arg = Task(name)]]
    /\ UNCHANGED <<store, handler, writes, initial>>

\* the GET of api.saveTasks is answered
saveTasksGetAnswered(c) ==
    /\ client[c].pc = "getting"
    /\ GetAnswered(c, client[c].arg)
    /\ UNCHANGED <<store, ui, writes, initial>>

\* saveTasks of the page after its await: TaskStore.setTasks(updatedTasks),
\* or the alert of the catch; finally isSaving = false
saveTasksSettles(c) ==
    /\ ui[c].phase = "saving"
    /\ client[c].pc = "done"
    /\ ui' = [ui EXCEPT ![c].phase = "ready",
                        ![c].session = IF client[c].outcome = "success"
                                       THEN client[c].result ELSE @,
                        ![c].errorShown = @ \/ client[c].outcome /= "success"]
    /\ client' = [client EXCEPT ![c] = IdleClient]
    /\ UNCHANGED <<store, handler, writes, initial>>

InitTasks == InitOf(TaskPages, {StoreOf(Arr(<<>>)), StoreOf(Arr(<<Task("x")>>))})

NextTasks ==
    \E c \in TaskPages :
        \/ fetchTasks(c)
        \/ handleAddTask(c)
        \/ saveTasksGetAnswered(c)
        \/ saveTasksPut(c)
        \/ saveTasksPutFails(c)
        \/ saveTasksSettles(c)

SpecTasks == InitTasks /\ [][NextTasks]_vars

(***************************************************************************)
(* The mock specification: appendItem and deleteItem of a client in mock   *)
(* mode (isMock), where the document is kept in localStorage; the store    *)
(* of the model stands for the localStorage item.                          *)
(***************************************************************************)
MockCallers == {1}

RECURSIVE MockReduce(_, _)
\* path.split('.').reduce((obj, key) => obj[parseInt(key)] or obj[key],
\* current) of the mock branches: no test of obj before the access
MockReduce(curr, parts) ==
    IF parts = <<>> THEN curr
    ELSE MockReduce(GetProp(curr, Head(parts)), Tail(parts))

\* JSON.parse(localStorage.getItem(...) || '{}')
MockCurrent == IF store.exists THEN store.content ELSE Obj(<<>>)

\* the call returns current, stored with JSON.stringify, or throws
MockReturns(c, method, path, arg, current) ==
    /\ client' = [client EXCEPT ![c] =
           [IdleClient EXCEPT !.pc = "done", !.method = method, !.path = path,
                              !.arg = arg, !.outcome = "success",
                              !.result = current]]
    /\ store' = [store EXCEPT !.exists = TRUE, !.content = Stringify(current)]

MockThrows(c, method, path, arg) ==
    /\ client' = [client EXCEPT ![c] =
           [IdleClient EXCEPT !.pc = "done", !.method = method, !.path = path,
                              !.arg = arg, !.outcome = "error"]]
    /\ UNCHANGED store

\* appendItem, mock branch: push when the target is an array
mockAppendItem(c) ==
    /\ client[c].pc = "idle"
    /\ \E path \in RequestPaths : \E value \in RequestArgs(c, "POST") :
          LET target == MockReduce(MockCurrent, path)
          IN  IF target.t = "throw" THEN MockThrows(c, "POST", path, value)
              ELSE IF target.t = "arr"
              THEN MockReturns(c, "POST", path, value,
                       SetAt(MockCurrent, path, Arr(Append(target.v, value))))
              ELSE MockReturns(c, "POST", path, value, MockCurrent)
    /\ UNCHANGED <<handler, ui, writes, initial>>

\* deleteItem, mock branch: splice when the target is an array that holds
\* an item with the id
mockDeleteItem(c) ==
    /\ client[c].pc = "idle"
    /\ \E path \in RequestPaths : \E id \in RequestArgs(c, "DELETE") :
          LET target == MockReduce(MockCurrent, path)
              index == IF target.t = "arr" THEN FindIndex(target.v, id) ELSE 0
          IN  IF target.t = "throw" \/ index = -1
              THEN MockThrows(c, "DELETE", path, id)
              ELSE IF index > 0
              THEN MockReturns(c, "DELETE", path, id,
                       SetAt(MockCurrent, path, Arr(Splice(target.v, index))))
              ELSE MockReturns(c, "DELETE", path, id, MockCurrent)
    /\ UNCHANGED <<handler, ui, writes, initial>>

InitMock == InitOf(MockCallers, {NoStore} \cup {StoreOf(d) : d \in Documents})

NextMock ==
    \E c \in MockCallers :
        \/ mockAppendItem(c)
        \/ mockDeleteItem(c)

SpecMock == InitMock /\ [][NextMock]_vars

(***************************************************************************)
(* Properties.                                                             *)
(***************************************************************************)
Done(c) == client[c].pc = "done"
Succeeded(c) == Done(c) /\ client[c].outcome = "success"

\* the number of elements of items equal to value
Copies(items, value) == Cardinality({i \in 1..Len(items) : items[i] = value})

\* an object without its weekNumber field
WithoutWeekNumber(object) ==
    Obj([k \in DOMAIN object.v \ {"weekNumber"} |-> object.v[k]])

\* element is value as the POST handler stores it at path: value itself,
\* with the weekNumber the server calculated when path is 'weeks'
StoredAs(path, value, element) ==
    IF path = <<"weeks">> /\ value.t = "obj"
    THEN element.t = "obj" /\ WithoutWeekNumber(element) = WithoutWeekNumber(value)
    ELSE element = value

\* the number of elements of items that are value as stored at path
StoredCopies(path, items, value) ==
    Cardinality({i \in 1..Len(items) : StoredAs(path, value, items[i])})

\* the stored array at a path
StoredArray(path) == navigateToPath(store.content, path).v

----------------------------------------------------------------------------
\* C1 (as stated): once two concurrent appendItem calls (default maxRetries)
\* on the same array path with distinct values have both returned, both
\* returned success and the stored array contains each value exactly once.
C1_NoLostUpdate_AsStated ==
    (Done(1) /\ Done(2) /\ client[1].path = client[2].path) =>
        \A c \in Pair :
            /\ Succeeded(c)
            /\ Copies(StoredArray(client[c].path), client[c].arg) = 1

\* C1 (amended): once two concurrent appendItem calls (default maxRetries)
\* on the same array path with distinct values have both returned, both
\* returned success and the stored array contains exactly one element for
\* each value: the value itself, or for path 'weeks' the value with the
\* weekNumber the server calculated.
C1_NoLostUpdate ==
    (Done(1) /\ Done(2) /\ client[1].path = client[2].path) =>
        \A c \in Pair :
            /\ Succeeded(c)
            /\ StoredCopies(client[c].path, StoredArray(client[c].path),
                            client[c].arg) = 1

\* both calls have returned, on the same path, one of them after a conflict
C1_Witness ==
    /\ Done(1) /\ Done(2)
    /\ client[1].path = client[2].path
    /\ client[1].conflicts = 1
    /\ client[2].outcome = "success"

----------------------------------------------------------------------------
\* the number of calls among clients that returned success on path
SucceededOn(clients, path) ==
    Cardinality({c \in clients : Succeeded(c) /\ client[c].path = path})

\* C2 (as stated): when only appendItem calls operate on the document and
\* all have returned, each stored array holds exactly once the value of
\* every call that returned success, no value of a call that failed, and
\* nothing else new.
C2_OnlySuccessfulStored_AsStated ==
    (\A c \in Appenders : Done(c)) =>
        /\ \A c \in Appenders :
              Copies(StoredArray(client[c].path), client[c].arg) =
                  IF Succeeded(c) THEN 1 ELSE 0
        /\ \A path \in {<<"resources">>, <<"weeks">>} :
              Len(StoredArray(path)) =
                  Len(navigateToPath(initial.content, path).v)
                      + SucceededOn(Appenders, path)

\* C2 (amended): when only appendItem calls operate on the document and all
\* have returned, each stored array holds exactly one element for the value
\* of every call that returned success (the value itself, or for path
\* 'weeks' the value with the server-calculated weekNumber), none for a
\* call that failed with 'Max retries exceeded', and nothing else new.
C2_OnlySuccessfulStored ==
    (\A c \in Appenders : Done(c)) =>
        /\ \A c \in Appenders :
              StoredCopies(client[c].path, StoredArray(client[c].path),
                           client[c].arg) = IF Succeeded(c) THEN 1 ELSE 0
        /\ \A path \in {<<"resources">>, <<"weeks">>} :
              Len(StoredArray(path)) =
                  Len(navigateToPath(initial.content, path).v)
                      + SucceededOn(Appenders, path)

\* all calls have returned, one with 'Max retries exceeded', two with success
C2_Witness ==
    /\ \A c \in Appenders : Done(c)
    /\ \E c \in Appenders : client[c].outcome = "exhausted"
    /\ \E c, d \in Appenders : c /= d /\ Succeeded(c) /\ Succeeded(d)

----------------------------------------------------------------------------
\* a handler that has read the document and whose version has since been
\* replaced by a successful upload
Stale(c) == handler[c].pc = "read" /\ Len(writes) > handler[c].readAt

\* C3: when a POST, DELETE or PATCH handler has read the document and a
\* successful upload (conditional or PUT) has changed the stored version
\* since, its own conditional upload is rejected: it answers 409 and the
\* blob stays as it was.
C3_ConflictDetection ==
    [][\A c \in Requesters :
          (Stale(c) /\ HandlerUpload(c)) =>
              /\ client'[c].status = 409
              /\ client'[c].pc = "response"
              /\ store' = store
              /\ writes' = writes]_vars

\* a handler was answered 409 after a PUT replaced the version it had read
C3_Witness ==
    \E c \in Requesters :
        /\ client[c].pc = "response"
        /\ client[c].status = 409
        /\ Len(writes) = 1
        /\ writes[1].kind = "put"

----------------------------------------------------------------------------
\* the version a successful upload replaced: the one produced by the upload
\* before it, or the initial one
Replaced(n) == IF n = 1 THEN initial.etag ELSE writes[n - 1].produced

\* C4: no two successful conditional uploads carry the same expected
\* version, and each successful conditional upload expects the version the
\* immediately preceding successful upload produced.
C4_OneWriterPerVersion ==
    /\ \A m, n \in DOMAIN writes :
          (m /= n /\ writes[m].kind = "conditional"
                  /\ writes[n].kind = "conditional")
              => writes[m].expected /= writes[n].expected
    /\ \A n \in DOMAIN writes :
          writes[n].kind = "conditional" => writes[n].expected = Replaced(n)

\* two conditional uploads succeeded, the second by a handler that had
\* first been rejected
C4_Witness ==
    /\ Len(writes) = 2
    /\ writes[1].kind = "conditional"
    /\ writes[2].kind = "conditional"
    /\ client[writes[2].by].conflicts = 1

----------------------------------------------------------------------------
RECURSIVE Replay(_, _, _)
\* the document after the mutations of log[n..] have been applied in order
\* to content
Replay(content, log, n) ==
    IF n > Len(log) THEN content
    ELSE Replay(Stringify(HandlerMutate(log[n].body, TRUE, content).data),
                log, n + 1)

\* C5: while only POST, DELETE and PATCH have mutated the document, the blob
\* holds the initial document with the mutations of the handlers that
\* answered 200 applied in the order their uploads succeeded, and the
\* handlers that answered 200 are exactly those whose upload is in that
\* order.
C5_SerialOrder ==
    (initial.exists /\ \A n \in DOMAIN writes : writes[n].kind = "conditional") =>
        /\ store.content = Replay(initial.content, writes, 1)
        /\ \A c \in Requesters :
              (client[c].status = 200) <=>
                  (\E n \in DOMAIN writes : writes[n].by = c)
        /\ \A m, n \in DOMAIN writes : writes[m].by = writes[n].by => m = n

\* two handlers answered 200, the second after a conflict, both appending
\* to the same array
C5_Witness ==
    /\ Len(writes) = 2
    /\ \A n \in DOMAIN writes :
          writes[n].kind = "conditional" /\ writes[n].body.method = "POST"
                                         /\ writes[n].body.path = <<"resources">>
    /\ client[writes[2].by].conflicts = 1
    /\ client[writes[2].by].status = 200

----------------------------------------------------------------------------
\* C6 (as stated): an appendItem call that met k < maxRetries conflicts and
\* has returned made k + 1 requests, returned success, and the stored array
\* contains its value exactly once.
C6_RetryConvergence_AsStated ==
    \A c \in Appenders :
        (Done(c) /\ client[c].conflicts < client[c].maxRetries) =>
            /\ client[c].requests = client[c].conflicts + 1
            /\ Succeeded(c)
            /\ Copies(StoredArray(client[c].path), client[c].arg) = 1

\* C6 (amended): an appendItem call that met k < maxRetries conflicts and
\* has returned made k + 1 requests, returned success, and the stored array
\* contains exactly one element for its value (the value itself, or for
\* path 'weeks' the value with the server-calculated weekNumber).
C6_RetryConvergence ==
    \A c \in Appenders :
        (Done(c) /\ client[c].conflicts < client[c].maxRetries) =>
            /\ client[c].requests = client[c].conflicts + 1
            /\ Succeeded(c)
            /\ StoredCopies(client[c].path, StoredArray(client[c].path),
                            client[c].arg) = 1

\* a call returned success at its third attempt, after two conflicts
C6_Witness ==
    \E c \in Appenders :
        /\ Succeeded(c)
        /\ client[c].conflicts = 2
        /\ client[c].requests = 3

----------------------------------------------------------------------------
\* C7: no appendItem / deleteItem call sends more than maxRetries requests,
\* and a call whose every attempt was answered 409 sends exactly maxRetries
\* requests and then fails with 'Max retries exceeded'.
C7_RetriesBounded ==
    \A c \in Callers :
        /\ client[c].requests <= client[c].maxRetries
        /\ (Done(c) /\ client[c].conflicts = client[c].requests) =>
              /\ client[c].outcome = "exhausted"
              /\ client[c].requests = client[c].maxRetries
        /\ client[c].outcome = "exhausted" =>
              /\ client[c].requests = client[c].maxRetries
              /\ client[c].conflicts = client[c].maxRetries

\* a deleteItem call failed with 'Max retries exceeded' after three conflicts
C7_Witness ==
    \E c \in Callers :
        /\ Done(c)
        /\ client[c].method = "DELETE"
        /\ client[c].outcome = "exhausted"
        /\ client[c].maxRetries = 3
        /\ client[c].requests = 3

----------------------------------------------------------------------------
\* C8: a page issues a PUT of the document only from createList after a 404
\* on load: never while an appendItem / deleteItem call is in progress, and
\* never when such a call has failed; the failure is only shown to the user.
C8_NoFallbackPut ==
    [][\A c \in Pages :
          /\ (ui'[c].puts /= ui[c].puts) => ui[c].phase = "creating"
          /\ (writes' /= writes /\ writes'[Len(writes')].kind = "put"
                                /\ writes'[Len(writes')].by = c)
                => ui[c].phase = "creating"
          /\ (ui[c].phase = "saving" /\ ui'[c].phase = "ready"
                                     /\ client'[c].outcome /= "success")
                => (ui'[c].errorShown /\ store' = store)]_vars

\* a call failed with 'Max retries exceeded', the error was shown and the
\* page has issued no PUT
C8_Witness ==
    \E c \in Pages :
        /\ client[c].outcome = "exhausted"
        /\ ui[c].errorShown
        /\ ui[c].puts = 0
        /\ ui[c].phase = "ready"

----------------------------------------------------------------------------
\* a response with a failure status other than 409
NonRetriable(status) == status /= 409 /\ (status < 200 \/ status > 299)

\* C9: when an attempt of appendItem / deleteItem receives a failure status
\* other than 409, the call fails at once: no further request is sent and
\* no backoff wait is made.
C9_FailFast ==
    [][\A c \in Callers :
          (client[c].pc = "response" /\ NonRetriable(client[c].status)
                /\ client'[c] /= client[c]) =>
              /\ client'[c].pc = "done"
              /\ client'[c].outcome = "error"
              /\ client'[c].requests = client[c].requests
              /\ client'[c].waits = client[c].waits
              /\ handler'[c].pc = "none"]_vars

\* a call failed on a 500 at its second attempt, having waited once
C9_Witness ==
    \E c \in Callers :
        /\ Done(c)
        /\ client[c].outcome = "error"
        /\ client[c].status = 500
        /\ client[c].requests = 2
        /\ Len(client[c].waits) = 1

----------------------------------------------------------------------------
\* a call that has returned ended in exactly one of the three outcomes
TerminalOutcome(c) ==
    /\ Done(c) <=> client[c].outcome /= "none"
    /\ client[c].outcome \in {"none", "success", "error", "exhausted"}
    /\ client[c].outcome = "success" =>
          /\ client[c].status \in 200..299
          /\ client[c].result = SessionDoc
    /\ client[c].outcome = "error" => NonRetriable(client[c].status)
    /\ client[c].outcome = "exhausted" =>
          client[c].conflicts = client[c].maxRetries

\* a new attempt starts only at the start of the call or after the backoff
\* wait that follows a 409
BackEdge(c) ==
    (client'[c].pc = "fetching" /\ client[c].pc /= "fetching") =>
        \/ client[c].pc = "idle"
        \/ /\ client[c].pc = "backoff"
           /\ client[c].status = 409
           /\ client'[c].i = client[c].i + 1
           /\ Len(client[c].waits) = client[c].i + 1

\* C10: every appendItem / deleteItem call terminates, in exactly one of
\* success with the returned document, a non-retriable error, or retries
\* exhausted, and a new attempt is only ever started from a conflict after
\* its backoff wait.
C10_Terminates ==
    /\ [](\A c \in Callers : TerminalOutcome(c))
    /\ [][\A c \in Callers : BackEdge(c)]_vars
    /\ \A c \in Callers : (client[c].pc = "fetching") ~> Done(c)

\* a call returned success at its third attempt
C10_Witness ==
    \E c \in Callers :
        /\ Succeeded(c)
        /\ client[c].conflicts = 2
        /\ client[c].maxRetries = 3

----------------------------------------------------------------------------
\* the request of c got past validation and found the document
Served(c) == client[c].pc /= "idle" /\ ~MissingFields(Body(c)) /\ initial.exists

\* what the path of c's request resolves to in the initial document
Target(c) == navigateToPath(initial.content, client[c].path)

\* the request of c was refused with status: it has not reached the upload,
\* nothing was written, and the answer, once there, carries the status
Refused(c, status) ==
    /\ handler[c].pc /= "read"
    /\ store = initial
    /\ writes = <<>>
    /\ client[c].pc \in {"response", "done"} => client[c].status = status
    /\ Done(c) => client[c].outcome = "error" /\ client[c].requests = 1

\* C11: a POST or DELETE whose path resolves to something that is not an
\* array is answered 400, never reaches the upload, and leaves the blob
\* (content and ETag) as it was.
C11_ShapeValidation ==
    \A c \in Callers :
        (Served(c) /\ client[c].method \in {"POST", "DELETE"}
                   /\ Target(c).t \notin {"arr", "throw"}) => Refused(c, 400)

\* a DELETE on the string field 'title' has been answered 400
C11_Witness ==
    \E c \in Callers :
        /\ Done(c)
        /\ client[c].method = "DELETE"
        /\ client[c].path = <<"title">>
        /\ client[c].status = 400
        /\ initial.content = MixedDoc

----------------------------------------------------------------------------
\* the path the handler resolves for c's request: the path itself, the
\* parent path for PATCH
Resolved(c) ==
    IF client[c].method = "PATCH" THEN ParentPath(client[c].path)
    ELSE client[c].path

\* resolution meets, with segments still to go, a missing segment or a node
\* that is not an object or array
MeetsNonContainer(c) ==
    \E k \in 1..(Len(Resolved(c)) - 1) :
        navigateToPath(initial.content, SubSeq(Resolved(c), 1, k)).t
            \in {"undef", "num", "str", "bool", "null"}

\* C12: when path resolution meets a missing intermediate segment or a node
\* that is not an object or array (a number, a string, null), the resolver
\* does not raise and the POST, DELETE or PATCH is answered 400 with nothing
\* written.
C12_UnresolvedPath ==
    \A c \in Callers :
        (Served(c) /\ MeetsNonContainer(c)) =>
            /\ Refused(c, 400)
            /\ client[c].pc \in {"response", "done"} =>
                  navigateToPath(initial.content, Resolved(c)).t /= "throw"

----------------------------------------------------------------------------
\* the request of c has been answered with status
Answered(c, status) ==
    client[c].pc \in {"response", "done"} /\ client[c].status = status

\* element bears the id (item.id === id)
Bears(element, id) ==
    element.t = "obj" /\ "id" \in DOMAIN element.v /\ element.v["id"] = id

\* every top-level field of the stored document other than key is as it was
OtherFieldsKept(key) ==
    /\ DOMAIN store.content.v \ {key} = DOMAIN initial.content.v \ {key}
    /\ \A k \in DOMAIN initial.content.v \ {key} :
          store.content.v[k] = initial.content.v[k]

\* C13: a DELETE answered 200 has removed exactly one element, the first
\* one of the target array bearing the id; every other element is still
\* there, in the same order, and the rest of the document is unchanged.
C13_RemoveExactlyFirst ==
    \A c \in Callers :
        (Served(c) /\ client[c].method = "DELETE" /\ Answered(c, 200)) =>
            LET old == Target(c).v
                new == StoredArray(client[c].path)
            IN  /\ Len(new) = Len(old) - 1
                /\ \E k \in 1..Len(old) :
                      /\ Bears(old[k], client[c].arg)
                      /\ \A j \in 1..(k - 1) : ~Bears(old[j], client[c].arg)
                      /\ \A j \in 1..(k - 1) : new[j] = old[j]
                      /\ \A j \in k..Len(new) : new[j] = old[j + 1]
                /\ Len(client[c].path) = 1 => OtherFieldsKept(client[c].path[1])

\* the first of two resources with id 'r1' has been removed, the second kept
C13_Witness ==
    \E c \in Callers :
        /\ Done(c)
        /\ client[c].method = "DELETE"
        /\ client[c].arg = Str("r1")
        /\ initial.content = MixedDoc
        /\ Succeeded(c)
        /\ StoredArray(<<"resources">>) =
              <<Resource("r2", "c2"), Resource("r1", "c3"), Resource("r0", "c4")>>

----------------------------------------------------------------------------
\* C14: a DELETE whose target is an array no element of which bears the id
\* is answered 404, never reaches the upload, and leaves the blob (content
\* and ETag) as it was.
C14_ItemNotFound ==
    \A c \in Callers :
        (Served(c) /\ client[c].method = "DELETE" /\ Target(c).t = "arr"
                   /\ \A k \in 1..Len(Target(c).v) :
                         ~Bears(Target(c).v[k], client[c].arg))
            => Refused(c, 404)

\* a DELETE of id 'zz' from the four resources has been answered 404
C14_Witness ==
    \E c \in Callers :
        /\ Done(c)
        /\ client[c].method = "DELETE"
        /\ client[c].path = <<"resources">>
        /\ client[c].arg = Str("zz")
        /\ client[c].status = 404
        /\ initial.content = MixedDoc
        /\ store = initial

----------------------------------------------------------------------------
RECURSIVE SameExceptAt(_, _, _)
\* new is old with nothing changed but the node reached by parts (which may
\* have been created as a field of an object)
SameExceptAt(old, new, parts) ==
    IF parts = <<>> THEN TRUE
    ELSE IF old.t = "obj"
    THEN LET key == IF IsDigits(Head(parts))
                    THEN NumberKey(ParseInt(Head(parts))) ELSE Head(parts)
         IN  /\ new.t = "obj"
             /\ DOMAIN new.v = DOMAIN old.v \cup {key}
             /\ \A k \in DOMAIN old.v \ {key} : new.v[k] = old.v[k]
             /\ key \in DOMAIN old.v =>
                   SameExceptAt(old.v[key], new.v[key], Tail(parts))
    ELSE IF old.t = "arr"
    THEN /\ new.t = "arr"
         /\ Len(new.v) = Len(old.v)
         /\ IF IsDigits(Head(parts))
            THEN \A k \in 1..Len(old.v) :
                    IF k = ParseInt(Head(parts)) + 1
                    THEN SameExceptAt(old.v[k], new.v[k], Tail(parts))
                    ELSE new.v[k] = old.v[k]
            ELSE new = old
    ELSE new = old

\* the parent of c's PATCH is an object or an array
ParentIsContainer(c) ==
    navigateToPath(initial.content, ParentPath(client[c].path)).t \in {"obj", "arr"}

\* C15: a PATCH answered 200 has set parent[finalSegment] to the value and
\* changed nothing else in the document; a top-level PATCH succeeds whether
\* the field exists or not; a nested PATCH whose final field does not exist
\* in its (object or array) parent is answered 400 with nothing written.
C15_PatchSetsOnlyField ==
    \A c \in Callers :
        (Served(c) /\ client[c].method = "PATCH") =>
            /\ Answered(c, 200) =>
                  /\ SameExceptAt(initial.content, store.content, client[c].path)
                  /\ Len(client[c].path) = 1 =>
                        navigateToPath(store.content, client[c].path) = client[c].arg
            /\ (Len(client[c].path) = 1 /\ client[c].pc \in {"response", "done"})
                  => client[c].status = 200
            /\ (Len(client[c].path) > 1 /\ ParentIsContainer(c)
                  /\ ~KeyIn(FieldName(client[c].path),
                            navigateToPath(initial.content,
                                           ParentPath(client[c].path))))
                  => Refused(c, 400)

----------------------------------------------------------------------------
\* C16: a PATCH whose parent path resolves to a string, a number or a
\* boolean is answered 400 with nothing written.
C16_PatchParentShape ==
    \A c \in Callers :
        (Served(c) /\ client[c].method = "PATCH" /\ Len(client[c].path) > 1
            /\ navigateToPath(initial.content, ParentPath(client[c].path)).t
                  \in {"str", "num", "bool"})
            => Refused(c, 400)

----------------------------------------------------------------------------
\* C17: the step in which a POST, DELETE or PATCH handler answers 200 stores
\* the mutated document, and the answer carries exactly the stored content,
\* the whole document; appendItem / deleteItem return that document.
C17_FullDocumentReturned ==
    [][\A c \in Requesters :
          /\ (client[c].pc = "fetching" /\ client'[c].pc = "response"
                                        /\ client'[c].status = 200) =>
                /\ store' /= store
                /\ store'.content =
                      Stringify(HandlerMutate(Body(c), TRUE, store.content).data)
                /\ client'[c].result = store'.content
          /\ (client[c].pc = "response" /\ client[c].status = 200
                                        /\ client'[c] /= client[c]) =>
                /\ Succeeded(c)'
                /\ client'[c].result = client[c].result]_vars

\* a call returned the stored document after a conflict, as the second write
C17_Witness ==
    \E c \in Requesters :
        /\ Succeeded(c)
        /\ client[c].method \in {"POST", "DELETE"}
        /\ client[c].conflicts = 1
        /\ Len(writes) = 2
        /\ client[c].result = store.content

----------------------------------------------------------------------------
\* the weekNumber of a week
WeekNumberOf(week) == GetProp(week, "weekNumber")

\* the weekNumber a first week gets: its own when truthy, otherwise 1
FirstWeekNumber(value) ==
    IF Truthy(WeekNumberOf(value)) THEN WeekNumberOf(value) ELSE Num(1)

\* C18: under concurrent appendItem calls on 'weeks' the stored weekNumbers
\* are pairwise distinct, and every appended week's weekNumber is one
\* greater than that of the week stored before it.
C18_WeekNumbersDistinct ==
    LET weeks == StoredArray(<<"weeks">>)
        before == Len(navigateToPath(initial.content, <<"weeks">>).v)
    IN  /\ Len(weeks) = before + Len(writes)
        /\ \A i \in 1..Len(weeks) : WeekNumberOf(weeks[i]).t = "num"
        /\ \A i, j \in 1..Len(weeks) :
              i /= j => WeekNumberOf(weeks[i]) /= WeekNumberOf(weeks[j])
        /\ \A i \in (before + 1)..Len(weeks) :
              i > 1 => WeekNumberOf(weeks[i]).v = WeekNumberOf(weeks[i - 1]).v + 1

\* both clients appended a week to the session with one week, the second
\* after a conflict: weekNumbers 1, 2, 3
C18_Witness ==
    /\ \A c \in WeekAdders : Succeeded(c)
    /\ \E c \in WeekAdders : client[c].conflicts = 1
    /\ Len(StoredArray(<<"weeks">>)) = 3
    /\ WeekNumberOf(StoredArray(<<"weeks">>)[3]) = Num(3)

----------------------------------------------------------------------------
\* the week the handler serving c has appended to the document it read
AppendedWeek(c) ==
    LET weeks == navigateToPath(handler[c].data, <<"weeks">>).v
    IN  weeks[Len(weeks)]

\* the number of weeks in the document the handler serving c read
WeeksRead(c) == Len(navigateToPath(handler[c].data, <<"weeks">>).v) - 1

\* the handlers serving c and d have read the same version of the document
\* for two requests that differ at most in the weekNumber of their value
TwinRequests(c, d) ==
    /\ handler[c].pc = "read" /\ handler[d].pc = "read"
    /\ handler[c].etag = handler[d].etag
    /\ WithoutWeekNumber(client[c].arg) = WithoutWeekNumber(client[d].arg)

----------------------------------------------------------------------------
\* C20: a POST, PATCH or DELETE (with its path and value or id) for a
\* document that is not stored is answered 404, never reaches the upload
\* and creates no document; appendItem / deleteItem fail on it after that
\* one request.
C20_NotFound ==
    \A c \in Callers :
        (client[c].pc /= "idle" /\ ~MissingFields(Body(c)) /\ ~initial.exists) =>
            /\ Refused(c, 404)
            /\ ~store.exists

\* an appendItem call with maxRetries 3 failed on the 404 after one request
C20_Witness ==
    \E c \in Callers :
        /\ Done(c)
        /\ client[c].method = "POST"
        /\ client[c].maxRetries = DefaultMaxRetries
        /\ client[c].status = 404
        /\ client[c].outcome = "error"
        /\ client[c].requests = 1
        /\ ~store.exists

----------------------------------------------------------------------------
\* the call of c has thrown
Failed(c) == Done(c) /\ client[c].outcome /= "success"

\* the condition behind the failure of c's call, by the status of the last
\* response (404 standing for both NotFound and ItemNotFound)
FailureCondition(c) ==
    CASE client[c].outcome = "exhausted" -> "RetriesExhausted"
      [] client[c].status = 400 -> "InvalidPath"
      [] client[c].status = 404 -> "NotFound"
      [] OTHER -> "UpstreamError"

\* C21 (as stated): the Error a failed appendItem / deleteItem call throws
\* identifies the condition: two failed calls that threw the same Error
\* failed on the same condition.
C21_TypedFailures_AsStated ==
    \A c, d \in TwoCallers :
        (Failed(c) /\ Failed(d)
            /\ ErrorMessage(client[c]) = ErrorMessage(client[d]))
            => FailureCondition(c) = FailureCondition(d)

\* C21 (amended): the Error a failed call throws tells two things only:
\* 'Max retries exceeded' exactly when every attempt was answered 409, and
\* 'Failed to append item' / 'Failed to delete item' exactly when the last
\* attempt was answered a failure status other than 409, whichever it was.
C21_TypedFailures ==
    \A c \in TwoCallers :
        Done(c) =>
            /\ ErrorMessage(client[c]) = "Max retries exceeded" <=>
                  /\ client[c].conflicts = client[c].maxRetries
                  /\ client[c].requests = client[c].maxRetries
            /\ ErrorMessage(client[c]) = "Failed to append item" <=>
                  /\ client[c].method = "POST"
                  /\ client[c].requests > client[c].conflicts
                  /\ NonRetriable(client[c].status)
            /\ ErrorMessage(client[c]) = "Failed to delete item" <=>
                  /\ client[c].method = "DELETE"
                  /\ client[c].requests > client[c].conflicts
                  /\ NonRetriable(client[c].status)
            /\ ErrorMessage(client[c]) = "" <=> Succeeded(c)

\* two appendItem calls threw 'Failed to append item', one on a 400 and one
\* on a 500, and the first had met a conflict before
C21_Witness ==
    /\ Failed(1) /\ Failed(2)
    /\ ErrorMessage(client[1]) = "Failed to append item"
    /\ ErrorMessage(client[2]) = "Failed to append item"
    /\ client[1].status = 400
    /\ client[2].status = 500
    /\ client[1].conflicts = 1

----------------------------------------------------------------------------
----------------------------------------------------------------------------
RECURSIVE NodeAt(_, _)
\* the node of doc that path leads to, from the last segment back: the
\* element of the parent array at an all-digit segment, the field of the
\* parent object (the length of a parent array) otherwise; Undefined when
\* there is none
NodeAt(doc, path) ==
    IF path = <<>> THEN doc
    ELSE LET parent == NodeAt(doc, SubSeq(path, 1, Len(path) - 1))
             part == path[Len(path)]
         IN  CASE parent.t = "arr" /\ IsDigits(part) ->
                    IF ParseInt(part) < Len(parent.v)
                    THEN parent.v[ParseInt(part) + 1] ELSE Undefined
               [] parent.t = "arr" /\ part = "length" -> Num(Len(parent.v))
               [] parent.t = "obj" /\ ~IsDigits(part) ->
                    IF part \in DOMAIN parent.v THEN parent.v[part] ELSE Undefined
               [] OTHER -> Undefined

\* every node the path passes through is an object, an array or missing
ThroughContainers(doc, path) ==
    \A k \in 1..(Len(path) - 1) :
        NodeAt(doc, SubSeq(path, 1, k)).t \in {"obj", "arr", "undef"}

\* C23: for a path through objects and arrays the resolver returns exactly
\* the node the segments lead to (array element at an all-digit segment,
\* object field otherwise), or undefined when a segment is missing
\* ('weeks.0.event.comments' with no week); POST and DELETE go on exactly
\* when that node is an array, and resolving changes nothing: the document
\* in the handler's hands differs from the stored one at most at the
\* resolved node.
C23_PathResolution ==
    \A c \in Callers :
        (Served(c) /\ ThroughContainers(initial.content, Resolved(c))
            /\ ~(client[c].method = "PATCH" /\ ParentIsRoot(client[c].path))) =>
            LET node == NodeAt(initial.content, Resolved(c))
            IN  /\ navigateToPath(initial.content, Resolved(c)) = node
                /\ client[c].method \in {"POST", "DELETE"} =>
                      /\ handler[c].pc = "read" => node.t = "arr"
                      /\ Answered(c, 400) => node.t /= "arr"
                      /\ Answered(c, 200) => node.t = "arr"
                /\ handler[c].pc = "read" =>
                      SameExceptAt(initial.content, handler[c].data, Resolved(c))
                /\ handler[c].pc /= "read" /\ writes = <<>> => store = initial
                /\ (initial.content = DEFAULT_SESSION
                      /\ client[c].path = <<"weeks", "0", "event", "comments">>
                      /\ client[c].method = "POST") =>
                        /\ node = Undefined
                        /\ client[c].pc \in {"response", "done"} =>
                              client[c].status = 400

\* a POST on 'weeks.1.completions' has appended to the completions of the
\* second week
C23_Witness ==
    \E c \in Callers :
        /\ Succeeded(c)
        /\ client[c].method = "POST"
        /\ client[c].path = <<"weeks", "1", "completions">>
        /\ initial.content = TwoWeekDoc
        /\ store.content.v["weeks"].v[2].v["completions"].v =
              <<Obj([id |-> Str("c6")]), client[c].arg>>
        /\ store.content.v["weeks"].v[1] = TwoWeekDoc.v["weeks"].v[1]

----------------------------------------------------------------------------
\* C24 (as stated): the resolver resolves the empty path to the root
\* document itself.
C24_EmptyPathIsRoot_AsStated ==
    initial.exists => navigateToPath(initial.content, EmptyPath) = initial.content

\* C24 (amended): the resolver resolves the empty path to the field of the
\* root named '' (undefined when there is none); the PATCH handler does not
\* call it for a top-level field, it takes the root document as the parent
\* and sets the field there; a request with the empty path is answered 400.
C24_EmptyPathIsRoot ==
    /\ initial.exists =>
          navigateToPath(initial.content, EmptyPath) = GetProp(initial.content, "")
    /\ \A c \in Callers :
          /\ (client[c].pc /= "idle" /\ initial.exists
                /\ client[c].path = EmptyPath) => Refused(c, 400)
          /\ (Served(c) /\ client[c].method = "PATCH"
                /\ Len(client[c].path) = 1) =>
                /\ handler[c].pc = "read" =>
                      handler[c].data = SetField(initial.content,
                                                 client[c].path[1], client[c].arg)
                /\ client[c].pc \in {"response", "done"} => client[c].status = 200

\* a PATCH of the top-level field 'missing' has created it in the root
C24_Witness ==
    \E c \in Callers :
        /\ Succeeded(c)
        /\ client[c].method = "PATCH"
        /\ client[c].path = <<"missing">>
        /\ initial.content = MixedDoc
        /\ store.content = SetField(MixedDoc, "missing", client[c].arg)
        /\ navigateToPath(store.content, EmptyPath) = Undefined

----------------------------------------------------------------------------
\* C25: every PUT a SwarmSpace page issues lands on a document name that
\* holds no document when the PUT is applied: a PUT is the first write, on
\* a store that was empty, and never replaces a stored document.
C25_PutOnlyCreates ==
    \A n \in DOMAIN writes :
        writes[n].kind = "put" => (n = 1 /\ ~initial.exists)

----------------------------------------------------------------------------
\* C26: a handler invocation for a POST, DELETE or PATCH that passed
\* validation downloads once and uploads at most once, in that order: it
\* starts with a request of the client, goes from the download either to
\* a response or to the upload, and from the upload to a response; a
\* rejected upload is answered 409 with nothing stored and no second
\* download or upload.
C26_NoServerRetry ==
    [][\A c \in Requesters :
          /\ (handler[c].pc = "received" /\ handler'[c] /= handler[c]) =>
                /\ writes' = writes /\ store' = store
                /\ \/ handler'[c].pc = "read" /\ client'[c] = client[c]
                   \/ handler'[c].pc = "none" /\ client'[c].pc = "response"
          /\ (handler[c].pc = "read" /\ handler'[c] /= handler[c]) =>
                /\ handler'[c].pc = "none"
                /\ client'[c].pc = "response"
                /\ client'[c].status \in {200, 409, 500}
                /\ client'[c].status = 200 =>
                      /\ Len(writes') = Len(writes) + 1
                      /\ writes'[Len(writes')].by = c
                      /\ writes'[Len(writes')].expected = handler[c].etag
                /\ client'[c].status /= 200 => (store' = store /\ writes' = writes)
          /\ (handler'[c].pc = "received" /\ handler[c].pc /= "received") =>
                /\ handler[c].pc = "none"
                /\ client'[c].pc = "fetching"
                /\ client'[c].requests = client[c].requests + 1
          /\ (Len(writes') > Len(writes)
                /\ writes'[Len(writes')].kind = "conditional"
                /\ writes'[Len(writes')].by = c) =>
                handler[c].pc = "read" /\ handler'[c].pc = "none"]_vars

\* a handler has answered 409 after another handler's upload, and is over:
\* one write is stored, not its own
C26_Witness ==
    \E c \in Requesters :
        /\ client[c].pc = "response"
        /\ client[c].status = 409
        /\ client[c].requests = 1
        /\ handler[c].pc = "none"
        /\ Len(writes) = 1
        /\ writes[1].kind = "conditional"
        /\ writes[1].by /= c

----------------------------------------------------------------------------
\* path p leads to the node of path q or to a node above it
IsPrefix(p, q) == Len(p) <= Len(q) /\ SubSeq(q, 1, Len(p)) = p

\* the value c patched with the change of d made inside it, when d's path
\* leads into the node c patched
ChangedWithin(c, d) ==
    IF IsPrefix(client[c].path, client[d].path)
          /\ Len(client[c].path) < Len(client[d].path)
    THEN LET within == [method |-> client[d].method,
                        path |-> SubSeq(client[d].path, Len(client[c].path) + 1,
                                        Len(client[d].path)),
                        arg |-> client[d].arg]
             r == HandlerMutate(within, TRUE, client[c].arg)
         IN  IF r.status = 0 THEN Stringify(r.data) ELSE client[c].arg
    ELSE client[c].arg

\* the stored document shows the change c asked for: the appended value is
\* in the array once; the patched field has the value, as it is or with
\* the other client's change made inside it
Reflected(c) ==
    LET node == navigateToPath(store.content, client[c].path)
    IN  IF client[c].method = "POST"
        THEN node.t = "arr" /\ StoredCopies(client[c].path, node.v, client[c].arg) = 1
        ELSE \/ node = client[c].arg
             \/ \E d \in CrossClients \ {c} : node = ChangedWithin(c, d)

\* C27 (as stated): when a PATCH and a concurrent POST or PATCH on a
\* different path of the same document, each sent again on 409, have both
\* succeeded, the stored document shows both changes.
C27_DifferentPaths_AsStated ==
    (Succeeded(1) /\ Succeeded(2)) => (Reflected(1) /\ Reflected(2))

\* C27 (amended): the same, for two paths neither of which is a prefix of
\* the other; the two changes are then the two writes of the document.
C27_DifferentPaths ==
    (Succeeded(1) /\ Succeeded(2)
        /\ ~IsPrefix(client[1].path, client[2].path)
        /\ ~IsPrefix(client[2].path, client[1].path)) =>
        /\ Reflected(1) /\ Reflected(2)
        /\ Len(writes) = 2
        /\ writes[2].expected = writes[1].produced

\* the title was patched first, the resource appended after a conflict; both
\* are stored
C27_Witness ==
    /\ Succeeded(1) /\ Succeeded(2)
    /\ client[1].path = <<"title">>
    /\ client[2].method = "POST"
    /\ client[2].path = <<"resources">>
    /\ client[2].conflicts = 1
    /\ writes[2].by = 2
    /\ Reflected(1) /\ Reflected(2)

----------------------------------------------------------------------------
\* the position of c's PUT among the writes, 0 when c has made none
PutOf(c) ==
    IF \E n \in DOMAIN writes : writes[n].by = c
    THEN CHOOSE n \in DOMAIN writes : writes[n].by = c
    ELSE 0

\* c's saveTasks returned success and the task it added is not stored
Clobbered(c) ==
    /\ Succeeded(c)
    /\ client[c].arg.t /= "undef"
    /\ Copies(store.content.v, client[c].arg) = 0

\* C28: saveTasks is last-writer-wins: a call fails only when the list is
\* not stored or the store fails, never because of the other call; it
\* returns success whatever was stored since its GET, the stored document is
\* the whole body of the last PUT, and the task a call added is missing from
\* the stored document exactly when the other call's PUT came later with
\* tasks fetched before the first call's PUT.
C28_LastWriterWins ==
    /\ \A c \in Savers :
          Done(c) => /\ client[c].status \in {200, 404, 500}
                     /\ client[c].status = 404 <=> ~initial.exists
                     /\ Succeeded(c) <=> client[c].status = 200
    /\ \A n \in DOMAIN writes : writes[n].kind = "put"
    /\ writes /= <<>> => store.content = Stringify(writes[Len(writes)].body.arg)
    /\ \A c \in Savers :
          (Succeeded(c) /\ client[c].arg.t /= "undef") =>
              /\ Copies(client[c].result.v, client[c].arg) = 1
              /\ Clobbered(c) <=>
                    \E d \in Savers \ {c} :
                        /\ PutOf(d) > PutOf(c)
                        /\ handler[d].readAt < PutOf(c)

\* both calls returned success, each having added a task, and the stored
\* document lacks the task of one of them
C28_Witness ==
    /\ \A c \in Savers : Succeeded(c) /\ client[c].arg.t /= "undef"
    /\ \E c \in Savers : Clobbered(c)
    /\ Len(writes) = 2

----------------------------------------------------------------------------
\* the stored week with the id
StoredWeek(weekId) ==
    LET weeks == StoredArray(<<"weeks">>)
    IN  weeks[FindIndex(weeks, weekId)]

\* a stored week numbered weekNumber holds a completion of the project
CompletionStored(weekNumber) ==
    \E i \in 1..Len(StoredArray(<<"weeks">>)) :
        LET week == StoredArray(<<"weeks">>)[i]
        IN  /\ GetProp(week, "weekNumber") = Num(weekNumber)
            /\ \E k \in 1..Len(GetProp(week, "completions").v) :
                  GetProp(GetProp(week, "completions").v[k], "projectName") = Str("x")

\* C29: once handleSaveProject has finished, with or without an error
\* shown, the stored source week does not have an action of type 'project'
\* without a completion of that project stored in the week numbered
\* source weekNumber + duration.
C29_StartProjectAtomic ==
    \A c \in ProjectPages :
        (ui[c].phase = "ready" /\ ui[c].project /= Undefined) =>
            (GetProp(GetProp(StoredWeek(ui[c].project.source), "action"), "type")
                    = Str("project")
                => CompletionStored(ui[c].project.completionWeekNum))

----------------------------------------------------------------------------
\* the handler invocation of c answers in this step
InvocationEnds(c) ==
    handler[c].pc \in {"received", "read"} /\ handler'[c].pc = "none"

\* C30: a POST, DELETE or PATCH handler invocation that answers with a
\* status other than 200 leaves the stored document and its version token
\* as they were; one that answers 200 has replaced the stored document, in
\* the same step, with the complete result of its mutation applied to the
\* document it replaces, under a new version token; and no other step of
\* these handlers changes the store.
C30_AllOrNothing ==
    [][/\ \A c \in Requesters :
            InvocationEnds(c) =>
                IF client'[c].status /= 200
                THEN store' = store /\ writes' = writes
                ELSE /\ store'.exists
                     /\ store'.content =
                            HandlerMutate(Body(c), store.exists, store.content).data
                     /\ store'.etag /= store.etag
                     /\ Len(writes') = Len(writes) + 1
       /\ store' /= store =>
            \E c \in Requesters :
                \/ InvocationEnds(c) /\ client'[c].status = 200
                \/ client'[c] /= client[c] /\ client'[c].method = "PUT"]_vars

\* an invocation has just been refused with 409: the store holds the one
\* document written by the successful attempt of another client
C30_Witness ==
    \E c \in Requesters :
        /\ client[c].pc = "response" /\ client[c].status = 409
        /\ Len(writes) = 1
        /\ writes[1].by /= c
        /\ store.etag /= initial.etag

----------------------------------------------------------------------------
\* the array the two calls delete from, as it was initially
InitialArray(c) == navigateToPath(initial.content, client[c].path).v

\* C31: when two concurrent deleteItem calls (default maxRetries) with the
\* same path and id, of an element the array holds once, have both
\* returned, exactly one returned success, the other failed on a 404 after
\* at most one conflict, and the stored array is the initial one without
\* that element, written by a single upload.  While they run, at most one
\* has succeeded.
C31_OneDeleteWins ==
    /\ ~(Succeeded(1) /\ Succeeded(2))
    /\ (Done(1) /\ Done(2)) =>
          \E w \in Deleters : \E l \in Deleters \ {w} :
              /\ Succeeded(w)
              /\ client[l].outcome = "error" /\ client[l].status = 404
              /\ client[l].conflicts <= 1
              /\ Len(writes) = 1 /\ writes[1].by = w
              /\ Len(StoredArray(client[w].path)) = Len(InitialArray(w)) - 1
              /\ OccurrencesOf(StoredArray(client[w].path), client[w].arg) = 0
              /\ \A i \in 1..Len(InitialArray(w)) :
                    GetProp(InitialArray(w)[i], "id") /= client[w].arg =>
                        \E j \in 1..Len(StoredArray(client[w].path)) :
                            StoredArray(client[w].path)[j] = InitialArray(w)[i]

\* both calls have returned and the one that failed had met a conflict: it
\* read the document before the other's upload and was refused after it
C31_Witness ==
    /\ Done(1) /\ Done(2)
    /\ \E l \in Deleters : client[l].conflicts = 1 /\ client[l].status = 404
    /\ Len(initial.content.v.resources.v) = 4

----------------------------------------------------------------------------
\* the stored completions of the week with the id
StoredCompletions(weekId) == GetProp(StoredWeek(weekId), "completions").v

\* C32: a comment that a page has appended with success to a completion
\* it chose is not stored in the comments of a completion with another id.
C32_CommentOnChosenCompletion ==
    \A c \in CommentPages :
        (Succeeded(c) /\ client[c].method = "POST") =>
            \A k \in 1..Len(StoredCompletions(ui[c].commentTarget.weekId)) :
                LET completion == StoredCompletions(ui[c].commentTarget.weekId)[k]
                IN  Copies(GetProp(completion, "comments").v, Item(c)) > 0
                        => GetProp(completion, "id") = ui[c].commentTarget.completionId

----------------------------------------------------------------------------
\* C33: once the page has set its local session to the document returned
\* by its own successful append, the local session does not go back to an
\* older version of the stored document: it still holds the appended item.
C33_LocalNeverGoesBack ==
    \A c \in SyncPages :
        (Succeeded(c) /\ ui[c].phase = "ready") =>
            Copies(GetProp(ui[c].session, "resources").v, Item(c)) > 0

----------------------------------------------------------------------------
\* the timer of the page fires in this step
TickStep(c) == ui'[c].sync.lastTick /= ui[c].sync.lastTick

\* a refresh is started by the timer in this step
PollerFetches(c) ==
    /\ Len(ui'[c].sync.polls) = Len(ui[c].sync.polls) + 1
    /\ ~ui'[c].sync.polls[Len(ui'[c].sync.polls)].manual

\* C34: a tick of the poll timer at which no more than PAUSE_AFTER has
\* elapsed since the last activity reset starts a fetch and leaves polling
\* running; a tick at which more has elapsed starts no fetch, clears the
\* timer and pauses; only a tick of a running, unpaused poller starts a
\* poller's fetch, and no timer is set while the module is paused; the
\* paused state is left only with lastSyncTime reset to the current time
\* and a new timer set; and after resetActivity (called directly or at the
\* end of manualRefresh) on an initialised module polling is running.
C34_PollUntilPaused ==
    /\ [](\A c \in SyncPages :
            /\ ui[c].sync.syncPaused => ~ui[c].sync.syncInterval
            /\ (ui[c].sync.api /\ ui[c].sync.lastOp = "resetActivity") =>
                  (ui[c].sync.syncInterval /\ ~ui[c].sync.syncPaused))
    /\ [][\A c \in SyncPages :
            /\ (TickStep(c)
                  /\ ui[c].sync.now - ui[c].sync.lastSyncTime <= PAUSE_AFTER) =>
                    /\ PollerFetches(c)
                    /\ ui'[c].sync.syncInterval /\ ~ui'[c].sync.syncPaused
            /\ (TickStep(c)
                  /\ ui[c].sync.now - ui[c].sync.lastSyncTime > PAUSE_AFTER) =>
                    /\ ui'[c].sync.polls = ui[c].sync.polls
                    /\ ~ui'[c].sync.syncInterval /\ ui'[c].sync.syncPaused
            /\ PollerFetches(c) =>
                    /\ TickStep(c)
                    /\ ui[c].sync.syncInterval /\ ~ui[c].sync.syncPaused
            /\ (ui[c].sync.syncPaused /\ ~ui'[c].sync.syncPaused) =>
                    /\ ui'[c].sync.lastOp = "resetActivity"
                    /\ ui'[c].sync.lastSyncTime = ui[c].sync.now
                    /\ ui'[c].sync.syncInterval]_vars

\* the poller has fetched at a tick exactly PAUSE_AFTER after the last
\* reset and paused at the next one
C34_Witness ==
    \E c \in SyncPages :
        /\ ui[c].sync.syncPaused /\ ui[c].sync.lastOp = "tick"
        /\ ui[c].sync.lastTick - ui[c].sync.lastSyncTime = PAUSE_AFTER + POLL_INTERVAL
        /\ ~ui[c].sync.stopped

----------------------------------------------------------------------------
\* C35: after stop() no poll timer is set as long as init has not been
\* called again.
C35_StopIsFinal ==
    \A c \in SyncPages : ui[c].sync.stopped => ~ui[c].sync.syncInterval

----------------------------------------------------------------------------
\* C36: when no save of the page is in flight, every task whose addition
\* was handed to saveTasks is stored, or a failed save was reported.
C36_NoSilentDrop ==
    \A c \in TaskPages :
        (ui[c].phase = "ready" /\ ~ui[c].errorShown) =>
            \A name \in ui[c].handed : Copies(store.content.v, Task(name)) > 0

----------------------------------------------------------------------------
\* what the POST or DELETE handler does with the request of the call on
\* the document the call started from
ServerWould(c) == HandlerMutate(Body(c), TRUE, initial.content)

\* C37: a mock appendItem or deleteItem on a stored document has the
\* outcome of the server-backed operation: where the handler uploads a
\* document, the call succeeds and the same document is stored; where the
\* handler answers 400 or 404, the call fails.
C37_MockMatchesServer ==
    \A c \in MockCallers :
        (Done(c) /\ initial.exists) =>
            /\ ServerWould(c).status = 0 =>
                  (Succeeded(c) /\ store.content = Stringify(ServerWould(c).data))
            /\ ServerWould(c).status \in {400, 404} => ~Succeeded(c)

====
